---- MODULE Spec2Model ----
(***************************************************************************)
(* A model of script-rs: the compiler (src/src/compiler.rs) that lowers an *)
(* AST to an opcode vector, and the stack VM (src/src/vm.rs) with its      *)
(* mark-and-sweep heap, together with the value operators                  *)
(* (src/src/value.rs).                                                     *)
(*                                                                         *)
(* Heap pointers are the 0-based indices of the source; the heap is a      *)
(* sequence, so slot p is heap[p + 1].  Strings are sequences of code      *)
(* points.  An integer of the source is an i64; the model scales it to     *)
(* IntBits bits, MinInt..MaxInt.  The programs checked stay far from these *)
(* limits in Add, Sub and Mul; Div and Mod are checked at the limits too.  *)
(***************************************************************************)
EXTENDS Integers, Sequences, FiniteSets, TLC

VARIABLES
    phase,          \* position of the driver (main.rs try_compiler)
    ccode,          \* Compiler.code, the opcodes accumulated by feed
    target_count,   \* Compiler.target_count
    nfed,           \* number of successful feed calls so far
    fed,            \* the statements fed so far (indices into StmtPool)
    code,           \* the opcode vector returned by build(), given to run()
    pc,             \* run()'s program counter
    heap,           \* VM.heap
    stack,          \* VM.stack
    top,            \* VM.top, the globals table
    free_list,      \* VM.free_list
    out,            \* everything written to standard output (code points)
    res,            \* the result of run(): Running, Ok, Err(..) or Panic
    gc,             \* history: the VM around the last collect() (pre/post)
    prev,           \* history: the last opcode run and the VM before it
    nraw,           \* opcodes appended to a vector handed to run() directly
    nruns           \* calls of run() made on the VM so far

vars == <<phase, ccode, target_count, nfed, fed, code, pc, heap, stack, top,
          free_list, out, res, gc, prev, nraw, nruns>>

\* ---------------------------------------------------------------- bounds

\* Statements fed to one compiler before build().
MaxStmts == 3

\* Opcodes a reference run may execute before it is cut off.
Fuel == 80

\* ---------------------------------------------------------------- values

None == [t |-> "None"]

VInt(n) == [t |-> "Int", n |-> n]

VStr(s) == [t |-> "Str", s |-> s]

VList(l) == [t |-> "List", l |-> l]

\* Result<T>: Ok(v) or Err(e)
Ok(v) == [ok |-> TRUE, v |-> v]

Err(e) == [ok |-> FALSE, err |-> e]

ErrStackUnderflow == [k |-> "Err", e |-> "StackUnderflow"]

ErrMemoryAccessOutOfRange(p) == [k |-> "Err", e |-> "MemoryAccessOutOfRange", ptr |-> p]

ErrInvalidMemoryAccess(p) == [k |-> "Err", e |-> "InvalidMemoryAccess", ptr |-> p]

ErrGlobalNotFound(s) == [k |-> "Err", e |-> "GlobalNotFound", name |-> s]

ErrIncompatibleOperands(o, a, b) == [k |-> "Err", e |-> "IncompatibleOperands", op |-> o, lhs |-> a, rhs |-> b]

\* The index is `i as usize`: for a negative i the payload is 2^64 + i, kept
\* here as i with wrapped = TRUE.
ErrIndexOutOfRange(v, i) == [k |-> "Err", e |-> "IndexOutOfRange", value |-> v, index |-> i, wrapped |-> (i < 0)]

ErrInvalidOpCode(at) == [k |-> "Err", e |-> "InvalidOpCode", at |-> at]

ErrInvalidAppend(v) == [k |-> "Err", e |-> "InvalidAppend", value |-> v]

ErrJumpTargetNotFound(id) == [k |-> "Err", e |-> "JumpTargetNotFound", id |-> id]

ErrInvalidAssignmentTarget(a) == [k |-> "Err", e |-> "InvalidAssignmentTarget", ast |-> a]

ErrNotEnoughArguments(name, given, expected) == [k |-> "Err", e |-> "NotEnoughArguments", name |-> name, given |-> given, expected |-> expected]

Running == [k |-> "Running"]

RunOk == [k |-> "Ok"]

\* The process aborts (a Rust panic): no Error value is returned.
Panic == [k |-> "Panic"]

\* ------------------------------------------------------------ sequences

Last(s) == s[Len(s)]

Front(s) == SubSeq(s, 1, Len(s) - 1)

\* Mutant: the last n entries, the topmost first
TailNReversed(s, n) == [i \in 1..n |-> s[Len(s) - i + 1]]

\* The last n entries of s / s without them (Vec::split_off(len - n)).
TailN(s, n) == SubSeq(s, Len(s) - n + 1, Len(s))

DropN(s, n) == SubSeq(s, 1, Len(s) - n)

RECURSIVE Repeat(_, _)
Repeat(s, n) == IF n <= 0 THEN <<>> ELSE s \o Repeat(s, n - 1)

RECURSIVE SetToSeq(_)
SetToSeq(S) == IF S = {} THEN <<>>
               ELSE LET x == CHOOSE y \in S : TRUE IN <<x>> \o SetToSeq(S \ {x})

\* ------------------------------------------------------------------ VM

\* VM::new
NewVM == [heap |-> <<>>, stack |-> <<>>, top |-> <<>>, free_list |-> <<>>,
          out |-> <<>>, res |-> Running, pc |-> 0, gc |-> [n |-> 0],
          managed |-> TRUE, checked |-> TRUE]

\* Mutant: a mark that does not look inside lists
ValueMarkNothing(v) == <<>>

\* Value::mark: the pointers a value holds
ValueMark(v) == IF v.t = "List" THEN v.l ELSE <<>>

\* The mark phase of collect(): an explicit worklist of pointers.
RECURSIVE MarkLoop(_, _, _)
MarkLoop(h, roots, marked) ==
    IF roots = <<>> THEN marked
    ELSE LET ptr == Last(roots)
             rest == Front(roots)
         IN IF ptr \notin marked /\ h[ptr + 1] # None
            THEN MarkLoop(h, rest \o ValueMark(h[ptr + 1]), marked \cup {ptr})
            ELSE MarkLoop(h, rest, marked)

\* Mutant: the globals are left out of the roots
RootsStackOnly(m) == m.stack

\* The roots of a collection: the stack, then the values of the globals.
Roots(m) == m.stack \o [i \in 1..Cardinality(DOMAIN m.top) |->
                            m.top[SetToSeq(DOMAIN m.top)[i]]]

\* The fields of the VM, as gc records them before and after a collection
Snapshot(m) == [heap |-> m.heap, stack |-> m.stack, top |-> m.top,
                free_list |-> m.free_list]

\* Mutant: the sweep empties the unmarked slots without listing them
CollectNoPush(m) ==
    LET marked == MarkLoop(m.heap, Roots(m), {})
        swept  == [m EXCEPT
                    !.free_list = <<>>,
                    !.heap = [i \in 1..Len(m.heap) |-> IF (i - 1) \in marked
                                                       THEN m.heap[i] ELSE None]]
    IN [swept EXCEPT !.gc = [n |-> 1, pre |-> Snapshot(m),
                             post |-> Snapshot(swept)]]

\* VM::collect
Collect(m) ==
    LET marked == MarkLoop(m.heap, Roots(m), {})
        n      == Len(m.heap)
        swept  == [m EXCEPT
                    !.free_list = SelectSeq([i \in 1..n |-> i - 1],
                                            LAMBDA i : i \notin marked),
                    !.heap = [i \in 1..n |-> IF (i - 1) \in marked
                                             THEN m.heap[i] ELSE None]]
    IN [swept EXCEPT !.gc = [n |-> 1, pre |-> Snapshot(m),
                             post |-> Snapshot(swept)]]

\* Mutant: the slot returned stays in the free list
FindFreeSlotNoPop(m) ==
    IF m.free_list # <<>> THEN [m |-> m, i |-> Last(m.free_list)]
    ELSE LET c == Collect(m)
         IN IF c.free_list # <<>> THEN [m |-> c, i |-> Last(c.free_list)]
            ELSE [m |-> [c EXCEPT !.heap = Append(@, None)], i |-> Len(c.heap)]

\* VM::find_free_slot: the VM after the call and the slot returned.  A VM
\* that is not managed never looks at the free list: it is the reference
\* machine whose heap only grows.
FindFreeSlot(m) ==
    IF ~m.managed
    THEN [m |-> [m EXCEPT !.heap = Append(@, None)], i |-> Len(m.heap)]
    ELSE IF m.free_list # <<>>
    THEN [m |-> [m EXCEPT !.free_list = Front(@)], i |-> Last(m.free_list)]
    ELSE LET c == Collect(m)
         IN IF c.free_list # <<>>
            THEN [m |-> [c EXCEPT !.free_list = Front(@)], i |-> Last(c.free_list)]
            ELSE [m |-> [c EXCEPT !.heap = Append(@, None)], i |-> Len(c.heap)]

\* VM::store_heap
StoreHeap(m, index, value) == [m EXCEPT !.heap[index + 1] = value]

\* VM::push
Push(m, ptr) == [m EXCEPT !.stack = Append(@, ptr)]

\* Mutant: every allocation starts with a collection
PushValueCollectFirst(m, value) ==
    LET f == FindFreeSlot(Collect(m))
    IN Push(StoreHeap(f.m, f.i, value), f.i)

\* VM::push_value
PushValue(m, value) ==
    LET f == FindFreeSlot(m)
    IN Push(StoreHeap(f.m, f.i, value), f.i)

\* VM::get
Get(m, ptr) ==
    IF ptr < 0 \/ ptr >= Len(m.heap) THEN Err(ErrMemoryAccessOutOfRange(ptr))
    ELSE IF m.heap[ptr + 1] = None THEN Err(ErrInvalidMemoryAccess(ptr))
    ELSE Ok(m.heap[ptr + 1])

\* VM::dup
Dup(m, i) ==
    IF i >= Len(m.stack) THEN Err(ErrStackUnderflow)
    ELSE Ok(m.stack[Len(m.stack) - i])

\* VM::dup_value
DupValue(m, i) ==
    LET p == Dup(m, i) IN IF p.ok THEN Get(m, p.v) ELSE p

\* ------------------------------------------------------- value operators

\* The nesting depth above which Value::fmt writes a list as [...]
FmtDepthCap == 3

\* Native stack frames Value::cmp may nest before the process overflows its
\* stack and aborts.
MaxCmpDepth == 5

RECURSIVE Digits(_)
Digits(n) == IF n < 10 THEN <<48 + n>> ELSE Digits(n \div 10) \o <<48 + (n % 10)>>

\* i64::to_string
IntToString(n) == IF n < 0 THEN <<45>> \o Digits(-n) ELSE Digits(n)

\* Mutant: the empty string and the empty list are false too
IsFalseOrEmpty(v) ==
    (v.t = "Int" /\ v.n = 0) \/ (v.t = "Str" /\ v.s = <<>>) \/ (v.t = "List" /\ v.l = <<>>)

\* Value::is_false
IsFalse(v) == v.t = "Int" /\ v.n = 0

\* Value::fmt
RECURSIVE Fmt(_, _, _), FmtElems(_, _, _, _, _)

\* Mutant: the elements of a list at depth four are still visited
FmtOneDeeper(v, m, depth) ==
    CASE v.t = "Int" -> Ok(IntToString(v.n))
      [] v.t = "Str" -> Ok(v.s)
      [] v.t = "List" ->
            IF depth > FmtDepthCap + 1 THEN Ok(<<91, 46, 46, 46, 93>>)
            ELSE FmtElems(v.l, 1, m, depth, <<91>>)

Fmt(v, m, depth) ==
    CASE v.t = "Int" -> Ok(IntToString(v.n))
      [] v.t = "Str" -> Ok(v.s)
      [] v.t = "List" ->
            IF depth > FmtDepthCap THEN Ok(<<91, 46, 46, 46, 93>>)
            ELSE FmtElems(v.l, 1, m, depth, <<91>>)

FmtElems(lst, i, m, depth, s) ==
    IF i > Len(lst) THEN Ok(s \o <<93>>)
    ELSE LET s1 == IF i > 1 THEN s \o <<44, 32>> ELSE s
             g  == Get(m, lst[i])
         IN IF ~g.ok THEN g
            ELSE LET f == Fmt(g.v, m, depth + 1)
                 IN IF ~f.ok THEN f
                    ELSE FmtElems(lst, i + 1, m, depth, s1 \o f.v)

\* Value::type_name
TypeName(v) == CASE v.t = "Int" -> "integer" [] v.t = "Str" -> "string"
                 [] v.t = "List" -> "list"

\* Mutant: a length that counts code points only
ValueLengthOfStr(v) == IF v.t = "Str" THEN Len(v.s) ELSE 0

\* Value::length
ValueLength(v) == CASE v.t = "Int" -> 0 [] v.t = "Str" -> Len(v.s)
                    [] v.t = "List" -> Len(v.l)

\* Mutant: the first code point decides, and ties count as less
StrLessFirst(a, b) ==
    IF b = <<>> THEN FALSE ELSE IF a = <<>> THEN TRUE ELSE a[1] <= b[1]

\* String < String: lexicographic over the code points
RECURSIVE StrLess(_, _)
StrLess(a, b) ==
    IF b = <<>> THEN FALSE
    ELSE IF a = <<>> THEN TRUE
    ELSE IF a[1] # b[1] THEN a[1] < b[1]
    ELSE StrLess(Tail(a), Tail(b))

Min(a, b) == IF a < b THEN a ELSE b

\* Value::cmp.  d counts the nested calls: the recursion has no other limit
\* than the native stack, whose overflow aborts the process.
RECURSIVE Cmp(_, _, _, _), CmpElems(_, _, _, _, _)
Cmp(self, m, other, d) ==
    IF d > MaxCmpDepth THEN Err(Panic)
    ELSE CASE self.t = "Int" /\ other.t = "Int" ->
                Ok(IF self.n < other.n THEN -1 ELSE IF self.n > other.n THEN 1 ELSE 0)
           [] self.t = "Str" /\ other.t = "Str" ->
                Ok(IF StrLess(self.s, other.s) THEN -1
                   ELSE IF StrLess(other.s, self.s) THEN 1 ELSE 0)
           [] self.t = "List" /\ other.t = "List" ->
                CmpElems(self.l, other.l, 1, m, d)
           [] OTHER -> Err(ErrIncompatibleOperands("Lt", self, other))

CmpElems(a, b, i, m, d) ==
    IF i > Min(Len(a), Len(b))
    THEN Ok(IF Len(a) < Len(b) THEN -1 ELSE IF Len(a) > Len(b) THEN 1 ELSE 0)
    ELSE LET av == Get(m, a[i])
             bv == Get(m, b[i])
         IN IF ~av.ok THEN av
            ELSE IF ~bv.ok THEN bv
            ELSE LET c == Cmp(av.v, m, bv.v, d + 1)
                 IN IF ~c.ok THEN c
                    ELSE IF c.v # 0 THEN c
                    ELSE CmpElems(a, b, i + 1, m, d)

\* Value::add
ValueAdd(self, other) ==
    CASE self.t = "Int" /\ other.t = "Int" -> Ok(VInt(self.n + other.n))
      [] self.t = "Str" /\ other.t = "Str" -> Ok(VStr(self.s \o other.s))
      [] self.t = "List" /\ other.t = "List" -> Ok(VList(self.l \o other.l))
      [] OTHER -> Err(ErrIncompatibleOperands("Add", self, other))

\* Value::sub
ValueSub(self, other) ==
    CASE self.t = "Int" /\ other.t = "Int" -> Ok(VInt(self.n - other.n))
      [] OTHER -> Err(ErrIncompatibleOperands("Sub", self, other))

\* Mutant: the count may stand on either side of the sequence
ValueMulEitherSide(self, other) ==
    CASE self.t = "Int" /\ other.t = "Int" -> Ok(VInt(self.n * other.n))
      [] self.t \in {"Str", "List"} /\ other.t = "Int" /\ other.n >= 0 ->
            Ok(IF self.t = "Str" THEN VStr(Repeat(self.s, other.n))
               ELSE VList(Repeat(self.l, other.n)))
      [] other.t \in {"Str", "List"} /\ self.t = "Int" /\ self.n >= 0 ->
            Ok(IF other.t = "Str" THEN VStr(Repeat(other.s, self.n))
               ELSE VList(Repeat(other.l, self.n)))
      [] OTHER -> Err(ErrIncompatibleOperands("Mul", self, other))

\* Value::mul
ValueMul(self, other) ==
    CASE self.t = "Int" /\ other.t = "Int" -> Ok(VInt(self.n * other.n))
      [] self.t = "Str" /\ other.t = "Int" /\ other.n >= 0 ->
            Ok(VStr(Repeat(self.s, other.n)))
      [] self.t = "List" /\ other.t = "Int" /\ other.n >= 0 ->
            Ok(VList(Repeat(self.l, other.n)))
      [] OTHER -> Err(ErrIncompatibleOperands("Mul", self, other))

Abs(n) == IF n < 0 THEN -n ELSE n

\* The width of an integer value: i64, scaled down
IntBits == 16

\* i64::MIN and i64::MAX at that width
MinInt == -(2 ^ (IntBits - 1))
MaxInt == 2 ^ (IntBits - 1) - 1

\* `a / b` and `a % b` on i64 panic when b is zero ("attempt to divide by
\* zero") and when a is i64::MIN and b is -1 ("attempt to divide with
\* overflow"), in every build
DivPanics(a, b) == b = 0 \/ (a = MinInt /\ b = -1)

\* Mutant: the quotient rounded toward minus infinity
FloorDiv(a, b) == IF b > 0 THEN a \div b ELSE (-a) \div (-b)

\* i64 / i64: the quotient truncated toward zero
TruncDiv(a, b) ==
    IF (a < 0) = (b < 0) THEN Abs(a) \div Abs(b) ELSE -(Abs(a) \div Abs(b))

\* i64 % i64: the remainder of the truncated division
TruncRem(a, b) == a - b * TruncDiv(a, b)

\* Mutant: a zero divisor is reported as an Error value
ValueDivZeroError(self, other) ==
    CASE self.t = "Int" /\ other.t = "Int" /\ other.n # 0 ->
            Ok(VInt(TruncDiv(self.n, other.n)))
      [] OTHER -> Err(ErrIncompatibleOperands("Div", self, other))

\* Value::div: a zero divisor panics ("attempt to divide by zero")
ValueDiv(self, other) ==
    CASE self.t = "Int" /\ other.t = "Int" ->
            IF DivPanics(self.n, other.n) THEN Err(Panic)
            ELSE Ok(VInt(TruncDiv(self.n, other.n)))
      [] OTHER -> Err(ErrIncompatibleOperands("Div", self, other))

\* Value::mod
ValueMod(self, other) ==
    CASE self.t = "Int" /\ other.t = "Int" ->
            IF DivPanics(self.n, other.n) THEN Err(Panic)
            ELSE Ok(VInt(TruncRem(self.n, other.n)))
      [] OTHER -> Err(ErrIncompatibleOperands("Mod", self, other))


\* --------------------------------------------------------------- opcodes

OpNop == [op |-> "Nop"]

OpTarget(id) == [op |-> "Target", id |-> id]

OpPushI(n) == [op |-> "PushI", n |-> n]

OpPushS(s) == [op |-> "PushS", s |-> s]

OpDup(i) == [op |-> "Dup", i |-> i]

OpPop == [op |-> "Pop"]

OpLoadG(s) == [op |-> "LoadG", s |-> s]

OpStoreG(s) == [op |-> "StoreG", s |-> s]

OpMoveG(s) == [op |-> "MoveG", s |-> s]

OpMakeList(n) == [op |-> "MakeList", n |-> n]

OpJmpF(t) == [op |-> "JmpF", t |-> t]

OpJmp(t) == [op |-> "Jmp", t |-> t]

OpNative(n, f) == [op |-> "Native", n |-> n, f |-> f]

\* Add, Sub, Mul, Div, Mod, Lt, Lte, Gt, Gte, Eq, Neq, Index, IndexStore
OpPlain(name) == [op |-> name]

CmpOps == {"Lt", "Lte", "Gt", "Gte", "Eq", "Neq"}

ArithOps == {"Add", "Sub", "Mul", "Div", "Mod"}

\* ------------------------------------------------------------- VM::run

\* Mutant: a collection runs before run() returns the error
FailAfterCollect(m, e) == [Collect(m) EXCEPT !.res = e]

\* `return Err(e)` (or a panic) out of run(): the VM keeps what the opcode
\* did before it failed.
Fail(m, e) == [m EXCEPT !.res = e]

\* Mutant: the opcode is executed again
AdvanceNowhere(m) == m

\* pc = next_pc, for an opcode that does not jump
Advance(m) == [m EXCEPT !.pc = @ + 1]

\* Mutant: a name already bound keeps its binding
TopInsertIfAbsent(t, s, ptr) == t @@ (s :> ptr)

\* HashMap::insert on the globals
TopInsert(t, s, ptr) == (s :> ptr) @@ t

\* `let bptr = self.pop()?; let aptr = self.pop()?;` and the two get()s
PopOperands(m) ==
    IF Len(m.stack) = 0 THEN [ok |-> FALSE, m |-> m, err |-> ErrStackUnderflow]
    ELSE IF Len(m.stack) = 1
    THEN [ok |-> FALSE, m |-> [m EXCEPT !.stack = <<>>], err |-> ErrStackUnderflow]
    ELSE LET m2   == [m EXCEPT !.stack = DropN(@, 2)]
             bptr == m.stack[Len(m.stack)]
             aptr == m.stack[Len(m.stack) - 1]
             b    == Get(m2, bptr)
             a    == Get(m2, aptr)
         IN IF ~b.ok THEN [ok |-> FALSE, m |-> m2, err |-> b.err]
            ELSE IF ~a.ok THEN [ok |-> FALSE, m |-> m2, err |-> a.err]
            ELSE [ok |-> TRUE, m |-> m2, a |-> a.v, b |-> b.v,
                  aptr |-> aptr, bptr |-> bptr]

\* The test each ordering opcode applies to the result of cmp
CmpHolds(name, c) ==
    CASE name = "Lt" -> c < 0 [] name = "Lte" -> c <= 0 [] name = "Gt" -> c > 0
      [] name = "Gte" -> c >= 0 [] name = "Eq" -> c = 0 [] name = "Neq" -> c # 0

\* Mutant: the result is written over the left operand
ExecCmpInPlace(m, name) ==
    LET o == PopOperands(m)
    IN IF ~o.ok THEN Fail(o.m, o.err)
       ELSE LET c == Cmp(o.a, o.m, o.b, 0)
            IN IF ~c.ok THEN Fail(o.m, c.err)
               ELSE Advance(Push(StoreHeap(o.m, o.aptr,
                        VInt(IF CmpHolds(name, c.v) THEN 1 ELSE 0)), o.aptr))

\* Op::Lt, Lte, Gt, Gte, Eq, Neq
ExecCmp(m, name) ==
    LET o == PopOperands(m)
    IN IF ~o.ok THEN Fail(o.m, o.err)
       ELSE LET c == Cmp(o.a, o.m, o.b, 0)
            IN IF ~c.ok THEN Fail(o.m, c.err)
               ELSE Advance(PushValue(o.m, VInt(IF CmpHolds(name, c.v) THEN 1 ELSE 0)))

\* Mutant: the result of arithmetic is written over the left operand
ExecArithInPlace(m, name) ==
    LET o == PopOperands(m)
    IN IF ~o.ok THEN Fail(o.m, o.err)
       ELSE LET c == CASE name = "Add" -> ValueAdd(o.a, o.b)
                       [] name = "Sub" -> ValueSub(o.a, o.b)
                       [] name = "Mul" -> ValueMul(o.a, o.b)
                       [] name = "Div" -> ValueDiv(o.a, o.b)
                       [] name = "Mod" -> ValueMod(o.a, o.b)
            IN IF ~c.ok THEN Fail(o.m, c.err)
               ELSE Advance(Push(StoreHeap(o.m, o.aptr, c.v), o.aptr))

\* Op::Add, Sub, Mul, Div, Mod
ExecArith(m, name) ==
    LET o == PopOperands(m)
    IN IF ~o.ok THEN Fail(o.m, o.err)
       ELSE LET c == CASE name = "Add" -> ValueAdd(o.a, o.b)
                       [] name = "Sub" -> ValueSub(o.a, o.b)
                       [] name = "Mul" -> ValueMul(o.a, o.b)
                       [] name = "Div" -> ValueDiv(o.a, o.b)
                       [] name = "Mod" -> ValueMod(o.a, o.b)
            IN IF ~c.ok THEN Fail(o.m, c.err)
               ELSE Advance(PushValue(o.m, c.v))

\* Mutant: a negative index counts from the end
ExecIndexFromEnd(m) ==
    LET o == PopOperands(m)
    IN IF ~o.ok THEN Fail(o.m, o.err)
       ELSE IF o.a.t = "List" /\ o.b.t = "Int"
       THEN (IF o.b.n >= -Len(o.a.l) /\ o.b.n < Len(o.a.l)
             THEN Advance(Push(o.m, o.a.l[((o.b.n + Len(o.a.l)) % Len(o.a.l)) + 1]))
             ELSE Fail(o.m, ErrIndexOutOfRange(o.a, o.b.n)))
       ELSE Fail(o.m, ErrIncompatibleOperands("Index", o.a, o.b))

\* Op::Index.  `*i as usize` of a negative i is past every length.
ExecIndex(m) ==
    LET o == PopOperands(m)
    IN IF ~o.ok THEN Fail(o.m, o.err)
       ELSE CASE o.a.t = "Str" /\ o.b.t = "Int" ->
                    IF o.b.n >= 0 /\ o.b.n < Len(o.a.s)
                    THEN Advance(PushValue(o.m, VInt(o.a.s[o.b.n + 1])))
                    ELSE Fail(o.m, ErrIndexOutOfRange(o.a, o.b.n))
              [] o.a.t = "List" /\ o.b.t = "Int" ->
                    IF o.b.n >= 0 /\ o.b.n < Len(o.a.l)
                    THEN Advance(Push(o.m, o.a.l[o.b.n + 1]))
                    ELSE Fail(o.m, ErrIndexOutOfRange(o.a, o.b.n))
              [] OTHER -> Fail(o.m, ErrIncompatibleOperands("Index", o.a, o.b))

\* Mutant: the pointer stored is the one of the index, not of the value
ExecIndexStoreIndexPtr(m) ==
    IF Len(m.stack) < 3 THEN Fail([m EXCEPT !.stack = <<>>], ErrStackUnderflow)
    ELSE LET cptr == m.stack[Len(m.stack)]
             bptr == m.stack[Len(m.stack) - 1]
             m2   == [m EXCEPT !.stack = DropN(@, 2)]
             b    == Get(m2, bptr)
             c    == Get(m2, cptr)
         IN IF ~b.ok THEN Fail(m2, b.err)
            ELSE IF ~c.ok THEN Fail(m2, c.err)
            ELSE IF b.v.t = "Int" /\ c.v.t = "List" /\ b.v.n >= 0 /\ b.v.n < Len(c.v.l)
            THEN Advance([m2 EXCEPT !.heap[cptr + 1] =
                             VList([c.v.l EXCEPT ![b.v.n + 1] = bptr])])
            ELSE Fail(m2, ErrIndexOutOfRange(c.v, 0))

\* Op::IndexStore
ExecIndexStore(m) ==
    IF Len(m.stack) = 0 THEN Fail(m, ErrStackUnderflow)
    ELSE IF Len(m.stack) = 1 THEN Fail([m EXCEPT !.stack = <<>>], ErrStackUnderflow)
    ELSE LET cptr == m.stack[Len(m.stack)]
             bptr == m.stack[Len(m.stack) - 1]
             m2   == [m EXCEPT !.stack = DropN(@, 2)]
             a    == Dup(m2, 0)
             b    == Get(m2, bptr)
             c    == Get(m2, cptr)
         IN IF ~a.ok THEN Fail(m2, a.err)
            ELSE IF ~b.ok THEN Fail(m2, b.err)
            ELSE IF b.v.t # "Int"
            THEN (IF ~c.ok THEN Fail(m2, c.err)
                  ELSE Fail(m2, ErrIncompatibleOperands("IndexStore", c.v, b.v)))
            ELSE IF ~c.ok THEN Fail(m2, c.err)
            ELSE IF c.v.t = "List"
            THEN (IF b.v.n >= 0 /\ b.v.n < Len(c.v.l)
                  THEN Advance([m2 EXCEPT !.heap[cptr + 1] =
                                   VList([c.v.l EXCEPT ![b.v.n + 1] = a.v])])
                  ELSE Fail(m2, ErrIndexOutOfRange(c.v, b.v.n)))
            ELSE Fail(m2, ErrIncompatibleOperands("IndexStore", c.v, b.v))


\* `for _ in 0 .. nargs { self.pop()?; }`
PopN(m, n) ==
    IF n <= Len(m.stack) THEN [m EXCEPT !.stack = DropN(@, n)]
    ELSE Fail([m EXCEPT !.stack = <<>>], ErrStackUnderflow)

\* Native::Print: each argument is written as soon as it is formatted
RECURSIVE PrintArgs(_, _, _)
PrintArgs(m, nargs, i) ==
    IF i >= nargs THEN [m EXCEPT !.out = @ \o <<10>>]
    ELSE LET v == DupValue(m, nargs - i - 1)
         IN IF ~v.ok THEN Fail(m, v.err)
            ELSE LET f == Fmt(v.v, m, 0)
                 IN IF ~f.ok THEN Fail(m, f.err)
                    ELSE PrintArgs([m EXCEPT !.out = @ \o f.v], nargs, i + 1)

\* {:?} of Vec<HeapPtr>
RECURSIVE DebugPtrs(_, _)
DebugPtrs(st, i) ==
    IF i > Len(st) THEN <<>>
    ELSE (IF i > 1 THEN <<44, 32>> ELSE <<>>)
         \o <<72, 101, 97, 112, 80, 116, 114, 40>> \o IntToString(st[i]) \o <<41>>
         \o DebugPtrs(st, i + 1)

\* The arm of `match native_op`: the VM after it (failed or not) and the
\* value to return.
NativeValue(m, nargs, f) ==
    CASE f = "Print" ->
            [m |-> PrintArgs(m, nargs, 0), value |-> VInt(nargs)]
      [] f = "Length" ->
            LET v == DupValue(m, 0)
            IN IF ~v.ok THEN [m |-> Fail(m, v.err), value |-> None]
               ELSE [m |-> m, value |-> VInt(ValueLength(v.v))]
      [] f = "ToString" ->
            LET v == DupValue(m, 0)
                s == IF v.ok THEN Fmt(v.v, m, 0) ELSE v
            IN IF ~s.ok THEN [m |-> Fail(m, s.err), value |-> None]
               ELSE [m |-> m, value |-> VStr(s.v)]
      [] f = "Append" ->
            IF nargs = 0
            THEN \* `nargs - 1` overflows: a panic with overflow checks, else
                 \* dup(usize::MAX)
                 [m |-> Fail(m, IF m.checked THEN Panic ELSE ErrStackUnderflow),
                  value |-> None]
            ELSE IF nargs - 1 >= Len(m.stack)
            THEN [m |-> Fail(m, ErrStackUnderflow), value |-> None]
            ELSE LET to_add == TailN(m.stack, nargs - 1)
                     tptr   == m.stack[Len(m.stack) - (nargs - 1)]
                     target == Get(m, tptr)
                 IN IF ~target.ok THEN [m |-> Fail(m, target.err), value |-> None]
                    ELSE IF target.v.t = "List"
                    THEN [m |-> [m EXCEPT !.heap[tptr + 1] = VList(target.v.l \o to_add)],
                          value |-> VInt(Len(target.v.l) + Len(to_add))]
                    ELSE [m |-> Fail(m, ErrInvalidAppend(target.v)), value |-> None]
      [] f = "DumpStack" ->
            LET v == DupValue(m, 0)
                s == IF v.ok THEN Fmt(v.v, m, 0) ELSE v
                dump == DebugPtrs(m.stack, 1) 
            IN IF nargs > 0 /\ ~s.ok THEN [m |-> Fail(m, s.err), value |-> None]
               ELSE [m |-> [m EXCEPT !.out = @ \o (IF nargs > 0 THEN s.v \o <<32>>
                                                   ELSE <<83, 84, 65, 67, 75, 62, 32>>)
                                              \o <<91>> \o dump \o <<93, 10>>],
                     value |-> VInt(Len(m.stack))]

\* Mutant: the arguments are left on the stack under the result
ExecNativeKeepArgs(m, nargs, f) ==
    LET r == NativeValue(m, nargs, f)
    IN IF r.m.res # Running THEN r.m
       ELSE Advance(PushValue(r.m, r.value))

\* Op::Native
ExecNative(m, nargs, f) ==
    LET r == NativeValue(m, nargs, f)
    IN IF r.m.res # Running THEN r.m
       ELSE LET p == PopN(r.m, nargs)
            IN IF p.res # Running THEN p
               ELSE Advance(PushValue(p, r.value))

\* Mutant: the elements leave the stack before the slot is found
ExecMakeListPopFirst(m, n) ==
    IF n > Len(m.stack) THEN Fail(m, Panic)
    ELSE LET f == FindFreeSlot([m EXCEPT !.stack = DropN(@, n)])
         IN Advance(Push(StoreHeap(f.m, f.i, VList(TailN(m.stack, n))), f.i))

\* Op::MakeList: the slot is found (a collection may run) while the elements
\* are still on the stack; `len - n` below zero panics in every build
\* (overflow check, or split_off past the end).
ExecMakeList(m, n) ==
    LET f == FindFreeSlot(m)
    IN IF n > Len(f.m.stack) THEN Fail(f.m, Panic)
       ELSE Advance(Push(StoreHeap([f.m EXCEPT !.stack = DropN(@, n)], f.i,
                                   VList(TailN(f.m.stack, n))), f.i))

\* Mutant: the jump is taken on every value but the integer 0
ExecJmpFOnTrue(m, target) ==
    IF m.stack = <<>> THEN Fail(m, ErrStackUnderflow)
    ELSE LET m2 == [m EXCEPT !.stack = Front(@)]
             v  == Get(m2, Last(m.stack))
         IN IF ~v.ok THEN Fail(m2, v.err)
            ELSE IF ~IsFalse(v.v) THEN [m2 EXCEPT !.pc = target]
            ELSE Advance(m2)

\* Op::JmpF
ExecJmpF(m, target) ==
    IF m.stack = <<>> THEN Fail(m, ErrStackUnderflow)
    ELSE LET m2 == [m EXCEPT !.stack = Front(@)]
             v  == Get(m2, Last(m.stack))
         IN IF ~v.ok THEN Fail(m2, v.err)
            ELSE IF IsFalse(v.v) THEN [m2 EXCEPT !.pc = target]
            ELSE Advance(m2)

\* Mutant: the jump is not taken
ExecJmpNotTaken(m, target) == Advance(m)

\* Op::Jmp
ExecJmp(m, target) == [m EXCEPT !.pc = target]

\* Op::StoreG
ExecStoreG(m, s) ==
    LET p == Dup(m, 0)
    IN IF ~p.ok THEN Fail(m, p.err)
       ELSE Advance([m EXCEPT !.top = TopInsert(@, s, p.v)])

\* One iteration of the loop of run(): `match code[pc]`
Exec(m, op) ==
    CASE op.op = "Nop" -> Advance(m)
      [] op.op = "Target" -> Fail(m, ErrInvalidOpCode(m.pc))
      [] op.op = "PushI" -> Advance(PushValue(m, VInt(op.n)))
      [] op.op = "PushS" -> Advance(PushValue(m, VStr(op.s)))
      [] op.op = "Dup" ->
            LET p == Dup(m, op.i)
            IN IF ~p.ok THEN Fail(m, p.err) ELSE Advance(Push(m, p.v))
      [] op.op = "Pop" ->
            IF m.stack = <<>> THEN Fail(m, ErrStackUnderflow)
            ELSE Advance([m EXCEPT !.stack = Front(@)])
      [] op.op = "LoadG" ->
            IF op.s \notin DOMAIN m.top THEN Fail(m, ErrGlobalNotFound(op.s))
            ELSE Advance(Push(m, m.top[op.s]))
      [] op.op = "StoreG" -> ExecStoreG(m, op.s)
      [] op.op = "MoveG" ->
            IF m.stack = <<>> THEN Fail(m, ErrStackUnderflow)
            ELSE Advance([m EXCEPT !.stack = Front(@),
                                   !.top = TopInsert(@, op.s, Last(m.stack))])
      [] op.op = "MakeList" -> ExecMakeList(m, op.n)
      [] op.op = "JmpF" -> ExecJmpF(m, op.t)
      [] op.op = "Jmp" -> ExecJmp(m, op.t)
      [] op.op = "Native" -> ExecNative(m, op.n, op.f)
      [] op.op \in CmpOps -> ExecCmp(m, op.op)
      [] op.op \in ArithOps -> ExecArith(m, op.op)
      [] op.op = "Index" -> ExecIndex(m)
      [] op.op = "IndexStore" -> ExecIndexStore(m)

\* run(): `while pc < code.len()`, cut off after `fuel` opcodes.  The result
\* is the VM when run() returns.
RECURSIVE Run(_, _, _)
Run(c, m, fuel) ==
    IF m.res # Running THEN m
    ELSE IF m.pc >= Len(c) THEN [m EXCEPT !.res = RunOk]
    ELSE IF fuel = 0 THEN [m EXCEPT !.res = [k |-> "OutOfFuel"]]
    ELSE Run(c, Exec(m, c[m.pc + 1]), fuel - 1)


\* ------------------------------------------------------------------ AST

\* Option::None of an optional sub-tree
NoAst == [a |-> "Absent"]

AstInt(n) == [a |-> "Int", n |-> n]

AstStr(s) == [a |-> "Str", s |-> s]

AstLst(lst) == [a |-> "Lst", lst |-> lst]

AstVar(s) == [a |-> "Var", s |-> s]

AstBinOp(kind, lhs, rhs) == [a |-> "BinOp", kind |-> kind, lhs |-> lhs, rhs |-> rhs]

AstLoop(st, cmp, body, up) == [a |-> "Loop", st |-> st, cmp |-> cmp, body |-> body, up |-> up]

AstIfElse(c, t, f) == [a |-> "IfElse", conditional |-> c, if_true |-> t, if_false |-> f]

AstBlock(asts) == [a |-> "Block", asts |-> asts]

AstSttm(e) == [a |-> "Sttm", e |-> e]

AstCall(callee, args) == [a |-> "Call", callee |-> callee, args |-> args]

AstIndex(lhs, rhs) == [a |-> "Index", lhs |-> lhs, rhs |-> rhs]

\* ------------------------------------------------------------- compiler

NoError == [k |-> "None"]

\* Compiler::new: native_calls maps a name to (Native, min-num-of-args)
NativeCalls == [print |-> <<"Print", 0>>, length |-> <<"Length", 1>>,
                to_string |-> <<"ToString", 1>>, append |-> <<"Append", 2>>,
                dump_stack |-> <<"DumpStack", 0>>]

NewCompiler == [code |-> <<>>, target_count |-> 0, err |-> NoError]

\* self.code.push(op), reached only when nothing before it returned Err
Emit(c, op) == IF c.err # NoError THEN c ELSE [c EXCEPT !.code = Append(@, op)]

\* Mutant: every call uses up two ids
NextTargetByTwo(c) ==
    IF c.err # NoError THEN c ELSE [c EXCEPT !.target_count = @ + 2]

\* Compiler::next_target (the id returned is the count before the call)
NextTarget(c) == IF c.err # NoError THEN c ELSE [c EXCEPT !.target_count = @ + 1]

\* Compiler::op_from_tk
OpFromTk(kind) ==
    IF kind = "NotEq" THEN OpPlain("Neq") ELSE OpPlain(kind)

BinOpKinds == {"Add", "Sub", "Mul", "Div", "Mod", "Lt", "Lte", "Gt", "Gte", "Eq", "NotEq"}

\* Compiler::feed.  A compiler whose err is set has returned Err from an
\* inner feed: every later step is skipped (the `?` operator).
RECURSIVE Feed(_, _), FeedAll(_, _, _), FeedAllFromLast(_, _, _)
Feed(c, ast) ==
    IF c.err # NoError THEN c
    ELSE CASE ast.a = "Sttm" -> Emit(Feed(c, ast.e), OpPop)
      [] ast.a = "Int" -> Emit(c, OpPushI(ast.n))
      [] ast.a = "Str" -> Emit(c, OpPushS(ast.s))
      [] ast.a = "Lst" -> Emit(FeedAll(c, ast.lst, 1), OpMakeList(Len(ast.lst)))
      [] ast.a = "Var" -> Emit(c, OpLoadG(ast.s))
      [] ast.a = "BinOp" /\ ast.kind = "Assign" ->
            CASE ast.lhs.a = "Var" -> Emit(Feed(c, ast.rhs), OpStoreG(ast.lhs.s))
              [] ast.lhs.a = "Index" ->
                    Emit(Feed(Feed(Feed(c, ast.rhs), ast.lhs.rhs), ast.lhs.lhs),
                         OpPlain("IndexStore"))
              [] OTHER -> [c EXCEPT !.err = ErrInvalidAssignmentTarget(ast.lhs)]
      [] ast.a = "BinOp" /\ ast.kind # "Assign" ->
            IF ast.kind \in BinOpKinds
            THEN Emit(Feed(Feed(c, ast.lhs), ast.rhs), OpFromTk(ast.kind))
            ELSE LET c1 == Feed(Feed(c, ast.lhs), ast.rhs)
                 IN IF c1.err # NoError THEN c1 ELSE [c1 EXCEPT !.err = Panic]
      [] ast.a = "Loop" ->
            LET c1 == IF ast.st # NoAst THEN Feed(c, ast.st) ELSE c
                loop_start == c1.target_count
                loop_end   == c1.target_count + 1
                c2 == Emit(NextTarget(NextTarget(c1)), OpTarget(loop_start))
                c3 == IF ast.cmp # NoAst THEN Emit(Feed(c2, ast.cmp), OpJmpF(loop_end))
                      ELSE c2
                c4 == Feed(c3, ast.body)
                c5 == IF ast.up # NoAst THEN Feed(c4, ast.up) ELSE c4
            IN Emit(Emit(c5, OpJmp(loop_start)), OpTarget(loop_end))
      [] ast.a = "IfElse" ->
            LET target_end == c.target_count
                c1 == NextTarget(c)
                target_false == IF ast.if_false # NoAst THEN c1.target_count
                                ELSE target_end
                c2 == IF ast.if_false # NoAst THEN NextTarget(c1) ELSE c1
                c3 == Feed(Emit(Feed(c2, ast.conditional), OpJmpF(target_false)),
                           ast.if_true)
                c4 == IF ast.if_false # NoAst
                      THEN Feed(Emit(Emit(c3, OpJmp(target_end)), OpTarget(target_false)),
                                ast.if_false)
                      ELSE c3
            IN Emit(c4, OpTarget(target_end))
      [] ast.a = "Block" -> FeedAll(c, ast.asts, 1)
      [] ast.a = "Index" -> Emit(Feed(Feed(c, ast.lhs), ast.rhs), OpPlain("Index"))
      [] ast.a = "Call" ->
            IF ast.callee.a = "Var" /\ ast.callee.s \in DOMAIN NativeCalls
            THEN LET native == NativeCalls[ast.callee.s]
                 IN IF Len(ast.args) < native[2]
                    THEN [c EXCEPT !.err = ErrNotEnoughArguments(ast.callee.s,
                                                Len(ast.args), native[2])]
                    ELSE Emit(FeedAll(c, ast.args, 1), OpNative(Len(ast.args), native[1]))
            ELSE [c EXCEPT !.err = Panic]

\* Mutant: the trees are fed from the last to the first
FeedAllFromLast(c, asts, i) ==
    IF i > Len(asts) \/ c.err # NoError THEN c
    ELSE FeedAllFromLast(Feed(c, asts[Len(asts) - i + 1]), asts, i + 1)

\* `for ast in asts { self.feed(ast)?; }`
FeedAll(c, asts, i) ==
    IF i > Len(asts) \/ c.err # NoError THEN c
    ELSE FeedAll(Feed(c, asts[i]), asts, i + 1)


\* Vec::remove(i), i 0-based
RemoveAt(s, i) == SubSeq(s, 1, i) \o SubSeq(s, i + 2, Len(s))

\* Mutant: the StoreG is rewritten and the Pop is left in place
RECURSIVE OptimizeFromKeepPop(_, _)
OptimizeFromKeepPop(c, i) ==
    IF i >= Len(c) THEN c
    ELSE IF c[i + 1].op = "StoreG" /\ i + 1 < Len(c) /\ c[i + 2].op = "Pop"
    THEN OptimizeFromKeepPop([c EXCEPT ![i + 1] = OpMoveG(c[i + 1].s)], i + 1)
    ELSE OptimizeFromKeepPop(c, i + 1)

\* Compiler::optimize: the forward scan from index i (0-based)
RECURSIVE OptimizeFrom(_, _)
OptimizeFrom(c, i) ==
    IF i >= Len(c) THEN c
    ELSE IF c[i + 1].op = "StoreG" /\ i + 1 < Len(c) /\ c[i + 2].op = "Pop"
    THEN OptimizeFrom(RemoveAt([c EXCEPT ![i + 1] = OpMoveG(c[i + 1].s)], i + 1), i + 1)
    ELSE OptimizeFrom(c, i + 1)

Optimize(c) == OptimizeFrom(c, 0)

\* usize::MAX, the mark of a target id that no Target marker has set
Unset == -1

\* Mutant: the markers are counted as if they stayed in the code
RECURSIVE TargetTableCountAll(_, _, _, _)
TargetTableCountAll(c, k, i, target) ==
    IF k > Len(c) THEN target
    ELSE IF c[k].op = "Target"
    THEN TargetTableCountAll(c, k + 1, i + 1, [target EXCEPT ![c[k].id] = i])
    ELSE TargetTableCountAll(c, k + 1, i + 1, target)

\* 1st pass of expand_targets: target[id] = number of non-Target opcodes
\* before Target(id)
RECURSIVE TargetTable(_, _, _, _)
TargetTable(c, k, i, target) ==
    IF k > Len(c) THEN target
    ELSE IF c[k].op = "Target"
    THEN TargetTable(c, k + 1, i, [target EXCEPT ![c[k].id] = i])
    ELSE TargetTable(c, k + 1, i + 1, target)

IsJump(op) == op.op \in {"Jmp", "JmpF"}

\* Mutant: the jumps are rewritten and the markers are not removed
ExpandTargetsKeepMarkers(c, count) ==
    LET target == TargetTable(c, 1, 0, [id \in 0..(count - 1) |-> Unset])
    IN Ok([k \in 1..Len(c) |->
              IF c[k].op \in {"Jmp", "JmpF"} THEN [c[k] EXCEPT !.t = target[c[k].t]]
              ELSE c[k]])

\* Compiler::expand_targets
ExpandTargets(c, count) ==
    LET target == TargetTable(c, 1, 0, [id \in 0..(count - 1) |-> Unset])
        bad    == {k \in 1..Len(c) : IsJump(c[k]) /\ target[c[k].t] = Unset}
        kept   == SelectSeq(c, LAMBDA x : x.op # "Target")
    IN IF bad # {}
       THEN Err(ErrJumpTargetNotFound(c[CHOOSE k \in bad : \A j \in bad : k <= j].t))
       ELSE Ok([k \in 1..Len(kept) |->
                    IF IsJump(kept[k]) THEN [kept[k] EXCEPT !.t = target[kept[k].t]]
                    ELSE kept[k]])

\* Mutant: the jumps are resolved before the peephole pass shortens the code
BuildExpandFirst(c, count) ==
    LET e == ExpandTargets(c, count)
    IN IF e.ok THEN Ok(Optimize(e.v)) ELSE e

\* Compiler::build
Build(c, count) == ExpandTargets(Optimize(c), count)

\* ------------------------------------------------------------- programs

\* "a", "b"
SA == <<97>>

SB == <<98>>

Assign(name, e) == AstSttm(AstBinOp("Assign", AstVar(name), e))

\* The top-level statements a source file is made of, as Parser::next
\* returns them.
StmtPool == <<
    \* x = [1] + [2];
    Assign("x", AstBinOp("Add", AstLst(<<AstInt(1)>>), AstLst(<<AstInt(2)>>))),
    \* y = x[0];
    Assign("y", AstIndex(AstVar("x"), AstInt(0))),
    \* print(x, y);
    AstSttm(AstCall(AstVar("print"), <<AstVar("x"), AstVar("y")>>)),
    \* x = 0;
    Assign("x", AstInt(0)),
    \* while x < 2 { x = x + 1; }
    AstLoop(NoAst, AstBinOp("Lt", AstVar("x"), AstInt(2)),
            AstBlock(<<Assign("x", AstBinOp("Add", AstVar("x"), AstInt(1)))>>), NoAst),
    \* if x { y = "a"; } else { y = [x]; }
    AstIfElse(AstVar("x"), AstBlock(<<Assign("y", AstStr(SA))>>),
              AstBlock(<<Assign("y", AstLst(<<AstVar("x")>>))>>)),
    \* x = [7, "b"] * 2;
    Assign("x", AstBinOp("Mul", AstLst(<<AstInt(7), AstStr(SB)>>), AstInt(2))),
    \* x[0] = y = x;
    AstSttm(AstBinOp("Assign", AstIndex(AstVar("x"), AstInt(0)),
                     AstBinOp("Assign", AstVar("y"), AstVar("x")))),
    \* append(x, 5);
    AstSttm(AstCall(AstVar("append"), <<AstVar("x"), AstInt(5)>>)),
    \* if y == x { y = length(to_string(y)); }
    AstIfElse(AstBinOp("Eq", AstVar("y"), AstVar("x")),
              AstBlock(<<Assign("y", AstCall(AstVar("length"),
                            <<AstCall(AstVar("to_string"), <<AstVar("y")>>)>>))>>),
              NoAst),
    \* [1] = length();
    AstSttm(AstBinOp("Assign", AstLst(<<AstInt(1)>>), AstCall(AstVar("length"), <<>>))),
    \* if x == 0 { x = 1; } else if x == 1 { x = 2; } else { x = 0; }
    AstIfElse(AstBinOp("Eq", AstVar("x"), AstInt(0)),
              AstBlock(<<Assign("x", AstInt(1))>>),
              AstIfElse(AstBinOp("Eq", AstVar("x"), AstInt(1)),
                        AstBlock(<<Assign("x", AstInt(2))>>),
                        AstBlock(<<Assign("x", AstInt(0))>>)))
>>


\* ---------------------------------------------------------------- driver

\* The VM as a record, and back.  checked tells whether the build checks
\* integer overflow; the one place that reads it, Native(0, Append), is not
\* reachable from compiled code, where append has at least two arguments.
VMState == [heap |-> heap, stack |-> stack, top |-> top, free_list |-> free_list,
            out |-> out, res |-> res, pc |-> pc, gc |-> gc,
            managed |-> TRUE, checked |-> TRUE]

SetVM(m) ==
    /\ heap' = m.heap
    /\ stack' = m.stack
    /\ top' = m.top
    /\ free_list' = m.free_list
    /\ out' = m.out
    /\ res' = m.res
    /\ pc' = m.pc
    /\ gc' = m.gc

CompilerState == [code |-> ccode, target_count |-> target_count, err |-> NoError]

vmvars == <<pc, heap, stack, top, free_list, out, gc>>

\* What prev records of a step: the opcode, its address and the VM before it
Before(op) == [n |-> 1, op |-> op, pc |-> pc, vm |-> Snapshot(VMState)]

\* try_compiler: Compiler::new() and VM::new() before anything is fed or run
Init ==
    /\ phase = "compile"
    /\ ccode = NewCompiler.code
    /\ target_count = NewCompiler.target_count
    /\ nfed = 0
    /\ fed = <<>>
    /\ code = <<>>
    /\ pc = NewVM.pc
    /\ heap = NewVM.heap
    /\ stack = NewVM.stack
    /\ top = NewVM.top
    /\ free_list = NewVM.free_list
    /\ out = NewVM.out
    /\ res = NewVM.res
    /\ gc = NewVM.gc
    /\ prev = [n |-> 0]
    /\ nraw = 0
    /\ nruns = 0

\* `compiler.feed(&ast)?` on the next statement of the source: on Err the
\* driver returns the error
FeedStmt ==
    /\ phase = "compile"
    /\ nfed < MaxStmts
    /\ \E k \in 1..Len(StmtPool) :
        LET c == Feed(CompilerState, StmtPool[k])
        IN /\ ccode' = c.code
           /\ target_count' = c.target_count
           /\ IF c.err = NoError
              THEN /\ nfed' = nfed + 1
                   /\ fed' = Append(fed, k)
                   /\ UNCHANGED <<phase, res>>
              ELSE /\ phase' = "failed"
                   /\ res' = c.err
                   /\ UNCHANGED <<nfed, fed>>
    /\ UNCHANGED <<code, vmvars, prev, nraw, nruns>>

\* `let code = compiler.build()?` at the end of the source
BuildCode ==
    /\ phase = "compile"
    /\ LET b == Build(ccode, target_count)
       IN IF b.ok
          THEN /\ code' = b.v
               /\ phase' = "run"
               /\ nruns' = 1
               /\ UNCHANGED res
          ELSE /\ phase' = "failed"
               /\ res' = b.err
               /\ UNCHANGED <<code, nruns>>
    /\ UNCHANGED <<ccode, target_count, nfed, fed, vmvars, prev, nraw>>

\* One opcode of vm.run(&code)
Step ==
    /\ phase = "run"
    /\ res = Running
    /\ pc < Len(code)
    /\ SetVM(Exec(VMState, code[pc + 1]))
    /\ prev' = Before(code[pc + 1])
    /\ UNCHANGED <<phase, ccode, target_count, nfed, fed, code, nraw, nruns>>

\* run() leaves its loop and returns Ok(())
Return ==
    /\ phase = "run"
    /\ res = Running
    /\ pc >= Len(code)
    /\ res' = RunOk
    /\ phase' = "ran"
    /\ UNCHANGED <<ccode, target_count, nfed, fed, code, vmvars, prev, nraw, nruns>>

\* `vm.collect()` after a successful run (main.rs)
ManualCollect ==
    /\ phase = "ran"
    /\ SetVM(Collect(VMState))
    /\ phase' = "end"
    /\ UNCHANGED <<ccode, target_count, nfed, fed, code, prev, nraw, nruns>>

Next == FeedStmt \/ BuildCode \/ Step \/ Return \/ ManualCollect

Spec == Init /\ [][Next]_vars

\* ------------------------------------------- run() on a vector of opcodes

\* Opcodes appended, one at a time, after the opcodes a vector starts with.
MaxRawOps == 2

\* PushI 3; PushS "a"; MakeList 2; MoveG x; <v>; PushI i; LoadG x
\* (the code of `x = [3, "a"];` and of the operands of `x[i] = <v>`)
SetupStore(vop, i) ==
    <<OpPushI(3), OpPushS(SA), OpMakeList(2), OpMoveG("x"), vop, OpPushI(i),
      OpLoadG("x")>>

\* The opcodes a vector given to run() starts with
RawSetups == <<
    <<>>,
    SetupStore(OpPushI(5), 0),
    SetupStore(OpPushI(5), 1),
    SetupStore(OpLoadG("x"), 1),
    SetupStore(OpPushI(5), 2),
    SetupStore(OpPushI(5), -1),
    \* x = []; then the list [7] on the stack above x
    <<OpMakeList(0), OpStoreG("x"), OpPushI(7), OpMakeList(1)>>,
    \* x = [0]; x[0] = x
    <<OpPushI(0), OpMakeList(1), OpStoreG("x"), OpPushI(0), OpLoadG("x"),
      OpPlain("IndexStore")>>,
    <<OpPushI(7), OpPushI(0)>>,
    \* two entries and a value nothing refers to, the free list empty
    <<OpPushI(1), OpPushS(SA), OpPushI(9), OpPop>>,
    \* one entry and a free slot in the free list
    <<OpPushI(9), OpPushI(8), OpPop, OpPop, OpPushI(1)>>,
    \* x = ["a", ""]; then the list ["a"] on the stack above x
    <<OpPushS(SA), OpPushS(<<>>), OpMakeList(2), OpStoreG("x"), OpPushS(SA),
      OpMakeList(1)>>,
    \* the operands of "ab"[1]
    <<OpPushS(SA \o SB), OpPushI(1)>>
>>

\* The opcodes that may follow; a jump goes one opcode past the next one.
RawOps(len) ==
    <<OpPushI(0), OpPushI(1), OpPushS(<<>>), OpPushS(SA), OpPop, OpDup(0),
      OpLoadG("x"), OpMoveG("y"), OpJmpF(len + 2), OpJmp(len + 2),
      OpNative(2, "Append"), OpNative(3, "Append"), OpNative(1, "Length"),
      OpNative(2, "Print"),
      OpMakeList(0), OpMakeList(1), OpMakeList(2), OpMakeList(3),
      OpPlain("Eq"), OpPlain("Lt"), OpPlain("Add"), OpPlain("Div"),
      OpPlain("Mod"), OpPlain("Index"), OpPlain("IndexStore")>>

\* VM::new(), and a vector about to be given to run()
RawInit ==
    /\ phase = "raw"
    /\ ccode = <<>>
    /\ target_count = 0
    /\ nfed = 0
    /\ fed = <<>>
    /\ \E i \in 1..Len(RawSetups) : code = RawSetups[i]
    /\ pc = NewVM.pc
    /\ heap = NewVM.heap
    /\ stack = NewVM.stack
    /\ top = NewVM.top
    /\ free_list = NewVM.free_list
    /\ out = NewVM.out
    /\ res = NewVM.res
    /\ gc = NewVM.gc
    /\ prev = [n |-> 0]
    /\ nraw = 0
    /\ nruns = 1

\* One opcode of run() on the vector
RawStep ==
    /\ phase = "raw"
    /\ res = Running
    /\ pc < Len(code)
    /\ SetVM(Exec(VMState, code[pc + 1]))
    /\ prev' = Before(code[pc + 1])
    /\ UNCHANGED <<phase, ccode, target_count, nfed, fed, code, nraw, nruns>>

\* The vector turns out to hold one more opcode, which run() executes
RawExtend ==
    /\ phase = "raw"
    /\ res = Running
    /\ pc = Len(code)
    /\ nraw < MaxRawOps
    /\ \E k \in 1..Len(RawOps(Len(code))) :
        LET op == RawOps(Len(code))[k]
        IN /\ code' = Append(code, op)
           /\ SetVM(Exec(VMState, op))
           /\ prev' = Before(op)
    /\ nraw' = nraw + 1
    /\ UNCHANGED <<phase, ccode, target_count, nfed, fed, nruns>>

\* pc is at or past the end of the vector: run() returns Ok(())
RawReturn ==
    /\ phase = "raw"
    /\ res = Running
    /\ pc >= Len(code)
    /\ res' = RunOk
    /\ phase' = "rawdone"
    /\ UNCHANGED <<ccode, target_count, nfed, fed, code, vmvars, prev, nraw, nruns>>

RawNext == RawStep \/ RawExtend \/ RawReturn

SpecRaw == RawInit /\ [][RawNext]_vars

\* ------------------------------------- several run() calls on the same VM

\* Calls of run() made on one VM.
MaxRuns == 3

\* `x[i]`
IndexRead(i) == <<OpLoadG("x"), OpPushI(i), OpPlain("Index")>>

\* `x[i] = 5`
IndexWrite(i) == <<OpPushI(5), OpPushI(i), OpLoadG("x"), OpPlain("IndexStore")>>

\* The vectors given to run(), one per call
RunPool == <<
    \* x = [3, "a"];
    <<OpPushI(3), OpPushS(SA), OpMakeList(2), OpMoveG("x")>>,
    \* x = "ab";
    <<OpPushS(SA \o SB), OpMoveG("x")>>,
    IndexRead(-1), IndexRead(0), IndexRead(1), IndexRead(2),
    IndexWrite(-1), IndexWrite(0), IndexWrite(1), IndexWrite(2),
    \* y = x
    <<OpLoadG("x"), OpStoreG("y")>>,
    <<OpLoadG("y")>>,
    <<>>
>>

\* VM::new(), and the vector of the first call of run()
RunsInit ==
    /\ phase = "raw"
    /\ ccode = <<>>
    /\ target_count = 0
    /\ nfed = 0
    /\ fed = <<>>
    /\ \E i \in 1..Len(RunPool) : code = RunPool[i]
    /\ pc = NewVM.pc
    /\ heap = NewVM.heap
    /\ stack = NewVM.stack
    /\ top = NewVM.top
    /\ free_list = NewVM.free_list
    /\ out = NewVM.out
    /\ res = NewVM.res
    /\ gc = NewVM.gc
    /\ prev = [n |-> 0]
    /\ nraw = 0
    /\ nruns = 1

\* Mutant: the call goes on at the address the call before it stopped at
RunAgainResumes ==
    /\ phase \in {"raw", "rawdone"}
    /\ res # Running
    /\ res # Panic
    /\ nruns < MaxRuns
    /\ \E i \in 1..Len(RunPool) : code' = RunPool[i]
    /\ res' = Running
    /\ phase' = "raw"
    /\ nruns' = nruns + 1
    /\ prev' = [n |-> 0]
    /\ UNCHANGED <<ccode, target_count, nfed, fed, pc, heap, stack, top, free_list,
                   out, gc, nraw>>

\* run() is called again on the VM a call has returned from, with an Ok
\* or with an Error: `let mut pc = 0;`, the fields of the VM as they are
RunAgain ==
    /\ phase \in {"raw", "rawdone"}
    /\ res # Running
    /\ res # Panic
    /\ nruns < MaxRuns
    /\ \E i \in 1..Len(RunPool) : code' = RunPool[i]
    /\ pc' = 0
    /\ res' = Running
    /\ phase' = "raw"
    /\ nruns' = nruns + 1
    /\ prev' = [n |-> 0]
    /\ UNCHANGED <<ccode, target_count, nfed, fed, heap, stack, top, free_list, out,
                   gc, nraw>>

RunsNext == RawStep \/ RawReturn \/ RunAgain

SpecRuns == RunsInit /\ [][RunsNext]_vars

\* ------------------------------------- run() on one arithmetic expression

\* Integer operands of Div and Mod: the limits of the width, the values
\* next to them, and small values of both signs.
DivInts ==
    <<MinInt, MinInt + 1, -7, -2, -1, 0, 1, 2, 7, MaxInt - 1, MaxInt>>

\* The code of the operands of Div and Mod: the integers, and a string
DivOperands ==
    [i \in 1..Len(DivInts) |-> <<OpPushI(DivInts[i])>>] \o <<<<OpPushS(SA)>>>>

\* The code of the operands of Mul: integers, strings and lists
MulOperands == <<
    <<OpPushI(-2)>>, <<OpPushI(-1)>>, <<OpPushI(0)>>, <<OpPushI(1)>>,
    <<OpPushI(2)>>, <<OpPushI(3)>>,
    <<OpPushS(<<>>)>>, <<OpPushS(SA)>>, <<OpPushS(SA \o SB)>>,
    <<OpMakeList(0)>>, <<OpPushI(7), OpMakeList(1)>>,
    <<OpPushI(7), OpPushS(SB), OpMakeList(2)>>
>>

\* The code of `a <op> b` (Compiler::feed, BinOp: a, b, the opcode)
ArithCode(a, b, name) == a \o b \o <<OpPlain(name)>>

\* What runs before the expression: nothing, or the code of
\* `x = [1] + [2];`
ArithPrefixes == <<
    <<>>,
    <<OpPushI(1), OpMakeList(1), OpPushI(2), OpMakeList(1), OpPlain("Add"),
      OpMoveG("x")>>
>>

\* VM::new(), and the code of one expression about to be given to run()
ArithInit ==
    /\ phase = "raw"
    /\ ccode = <<>>
    /\ target_count = 0
    /\ nfed = 0
    /\ fed = <<>>
    /\ \E k \in 1..Len(ArithPrefixes) :
        \/ \E i, j \in 1..Len(MulOperands) :
            code = ArithPrefixes[k] \o
                   ArithCode(MulOperands[i], MulOperands[j], "Mul")
        \/ \E i, j \in 1..Len(DivOperands) : \E name \in {"Div", "Mod"} :
            code = ArithPrefixes[k] \o
                   ArithCode(DivOperands[i], DivOperands[j], name)
    /\ pc = NewVM.pc
    /\ heap = NewVM.heap
    /\ stack = NewVM.stack
    /\ top = NewVM.top
    /\ free_list = NewVM.free_list
    /\ out = NewVM.out
    /\ res = NewVM.res
    /\ gc = NewVM.gc
    /\ prev = [n |-> 0]
    /\ nraw = 0
    /\ nruns = 1

ArithNext == RawStep \/ RawReturn

SpecArith == ArithInit /\ [][ArithNext]_vars

\* ------------------------------------------------------ heap predicates

Range(f) == {f[x] : x \in DOMAIN f}

\* The pointers of the stack and of the globals table
RootSet(st, tp) == Range(st) \cup Range(tp)

\* The slots a value points to
PointersOf(v) == IF v.t = "List" THEN Range(v.l) ELSE {}

HoldsValue(h, p) == p >= 0 /\ p < Len(h) /\ h[p + 1] # None

\* The value-holding slots among ptrs
Valued(h, ptrs) == {p \in ptrs : HoldsValue(h, p)}

\* The least set of value-holding slots that holds the value-holding roots
\* and, with a list, the value-holding slots its elements point to
RECURSIVE LiveFrom(_, _)
LiveFrom(h, S) ==
    LET T == S \cup Valued(h, UNION {PointersOf(h[p + 1]) : p \in S})
    IN IF T = S THEN S ELSE LiveFrom(h, T)

Live(h, st, tp) == LiveFrom(h, Valued(h, RootSet(st, tp)))

Slots(h) == 0..(Len(h) - 1)

\* run() is between two opcodes, or has returned
BetweenOpcodes == phase \in {"run", "ran", "end", "raw", "rawdone"}

\* ------------------------------------------------------------------ C1

\* C1: every pointer stored in a list that is reachable from the stack or
\* the globals references a slot that holds a value and is not in the free
\* list.
C1_ListPointersAllocated ==
    BetweenOpcodes =>
        \A p \in Live(heap, stack, top) :
            \A q \in PointersOf(heap[p + 1]) :
                HoldsValue(heap, q) /\ q \notin Range(free_list)

\* ------------------------------------------------------------------ C2

\* C2: immediately after collect() returns, every pointer on the stack and
\* every pointer bound in the globals references a slot that holds a value.
C2_RootsValuedAfterCollect ==
    gc.n = 1 =>
        \A p \in RootSet(gc.post.stack, gc.post.top) : HoldsValue(gc.post.heap, p)

\* ------------------------------------------------------------------ C3

\* The value behind a pointer, followed through list pointers (to depth d)
RECURSIVE DeepValue(_, _, _)
DeepValue(h, p, d) ==
    IF ~HoldsValue(h, p) THEN None
    ELSE IF h[p + 1].t # "List" THEN h[p + 1]
    ELSE IF d = 0 THEN [t |-> "Deeper"]
    ELSE [t |-> "List", l |-> [i \in 1..Len(h[p + 1].l) |-> DeepValue(h, h[p + 1].l[i], d - 1)]]

DeepGlobals(m) == [s \in DOMAIN m.top |-> DeepValue(m.heap, m.top[s], FmtDepthCap)]

\* The same program on the reference machine, whose heap only grows
ReferenceRun == Run(code, [NewVM EXCEPT !.managed = FALSE], Fuel)

\* Success, or which error
ResultKind(r) == IF r.k = "Err" THEN r.e ELSE r.k

RunReturned == (phase = "run" /\ res # Running) \/ phase = "ran"

\* C3: a run prints the same output, returns the same result and leaves the
\* same values in the globals as the run on the reference machine.
C3_CollectionTransparent ==
    RunReturned =>
        /\ out = ReferenceRun.out
        /\ ResultKind(res) = ResultKind(ReferenceRun.res)
        /\ DeepGlobals(VMState) = DeepGlobals(ReferenceRun)

\* ------------------------------------------------------------------ C4

\* C4: collect() leaves the stack, the globals and the heap length as they
\* were, and every value-holding slot reachable from them keeps its value.
C4_CollectKeepsReachable ==
    gc.n = 1 =>
        /\ gc.post.stack = gc.pre.stack
        /\ gc.post.top = gc.pre.top
        /\ Len(gc.post.heap) = Len(gc.pre.heap)
        /\ \A p \in Live(gc.pre.heap, gc.pre.stack, gc.pre.top) :
                gc.post.heap[p + 1] = gc.pre.heap[p + 1]

\* A collection that kept a list with its elements and freed another slot
C4_Witness ==
    /\ gc.n = 1
    /\ \E p \in Live(gc.pre.heap, gc.pre.stack, gc.pre.top) :
            /\ gc.pre.heap[p + 1].t = "List"
            /\ gc.pre.heap[p + 1].l # <<>>
            /\ p \notin RootSet(gc.pre.stack, gc.pre.top) 
    /\ \E q \in Slots(gc.pre.heap) :
            gc.pre.heap[q + 1] # None /\ gc.post.heap[q + 1] = None

\* ------------------------------------------------------------------ C5

\* C5: immediately after collect() returns, the None slots are exactly the
\* slots that are not value-holding slots reachable from the stack or the
\* globals, the free list holds exactly their indices, each once, and so its
\* length is the heap length minus the number of reachable slots.
C5_SweepExact ==
    gc.n = 1 =>
        LET live == Live(gc.pre.heap, gc.pre.stack, gc.pre.top)
            h    == gc.post.heap
            fl   == gc.post.free_list
        IN /\ {p \in Slots(h) : h[p + 1] = None} = Slots(h) \ live
           /\ Range(fl) = Slots(h) \ live
           /\ \A i, j \in 1..Len(fl) : fl[i] = fl[j] => i = j
           /\ Len(fl) = Len(h) - Cardinality(live)
           /\ live = Live(h, gc.post.stack, gc.post.top)

\* A collection that found both reachable and unreachable slots
C5_Witness ==
    /\ gc.n = 1
    /\ Len(gc.post.free_list) >= 2
    /\ Cardinality(Live(gc.pre.heap, gc.pre.stack, gc.pre.top)) >= 2

\* ------------------------------------------------------------------ C6

\* C6 as stated: between two opcodes every slot is a value reachable from
\* the stack or the globals, or is None and in the free list.
C6_EverySlotLiveOrFree ==
    BetweenOpcodes =>
        \A p \in Slots(heap) :
            \/ p \in Live(heap, stack, top)
            \/ heap[p + 1] = None /\ p \in Range(free_list)

\* C6 as amended: between two opcodes every slot holds a value (reachable or
\* not) or is None and in the free list.
C6_EverySlotValuedOrFree ==
    BetweenOpcodes =>
        \A p \in Slots(heap) : heap[p + 1] = None => p \in Range(free_list)

\* A value that nothing reaches sits beside a freed slot
C6_Witness ==
    /\ phase = "run"
    /\ \E p \in Slots(heap) : heap[p + 1] # None /\ p \notin Live(heap, stack, top)
    /\ \E p \in Slots(heap) : heap[p + 1] = None

\* ------------------------------------------------------------------ C7

\* C7: between two opcodes every index in the free list is within the heap,
\* refers to a None slot and appears once.
C7_FreeListSound ==
    BetweenOpcodes =>
        /\ \A i \in 1..Len(free_list) :
                /\ free_list[i] \in Slots(heap)
                /\ heap[free_list[i] + 1] = None
        /\ \A i, j \in 1..Len(free_list) : free_list[i] = free_list[j] => i = j

\* Slots were taken from a free list that still holds others
C7_Witness ==
    /\ phase = "run"
    /\ Len(free_list) >= 2
    /\ gc.n = 1
    /\ Len(free_list) < Len(gc.post.free_list)

\* ------------------------------------------------------------------ C8

Built == phase \in {"run", "ran", "end"}

\* C8: the vector returned by build() holds no Target marker, and run() on
\* it never returns InvalidOpCode.
C8_NoTargetInFinalCode ==
    /\ Built => \A k \in 1..Len(code) : code[k].op # "Target"
    /\ ~(res.k = "Err" /\ res.e = "InvalidOpCode")

\* A run is under way on code whose markers build() removed
C8_Witness ==
    /\ phase = "run"
    /\ pc > 0
    /\ Cardinality({k \in 1..Len(ccode) : ccode[k].op = "Target"}) >= 3
    /\ \E k \in 1..Len(code) : IsJump(code[k])

\* ------------------------------------------------------------------ C9

\* C9 as stated: every Jmp(a) and JmpF(a) of the final vector has
\* 0 <= a < length of the vector.
C9_JumpsInsideCode ==
    Built => \A k \in 1..Len(code) :
                IsJump(code[k]) => code[k].t >= 0 /\ code[k].t < Len(code)

\* C9 as amended: 0 <= a <= length of the vector; a is the length when the
\* marker jumped to ends the program.
C9_JumpsInsideOrAtEnd ==
    Built => \A k \in 1..Len(code) :
                IsJump(code[k]) => code[k].t >= 0 /\ code[k].t <= Len(code)

\* A run that took a jump to the end of the vector, which holds inner jumps too
C9_Witness ==
    /\ phase = "ran"
    /\ \E k \in 1..Len(code) : IsJump(code[k]) /\ code[k].t = Len(code)
    /\ \E k \in 1..Len(code) : IsJump(code[k]) /\ code[k].t < Len(code)

\* ----------------------------------------------------------------- C10

\* The accumulated code with jumps resolved and no peephole rewrite
UnoptimizedCode == ExpandTargets(ccode, target_count)

SameOutcome(a, b) ==
    /\ a.top = b.top
    /\ a.stack = b.stack
    /\ a.heap = b.heap
    /\ a.out = b.out
    /\ a.res = b.res

GlobalNames == {"x", "y"}

\* The VM of this state about to run another vector
Restarted == [VMState EXCEPT !.pc = 0, !.res = Running]

\* C10: the run of the built code ends as the run of the code without the
\* rewrite ends; and from every VM state StoreG(n);Pop ends as MoveG(n) ends.
C10_PeepholePreserves ==
    /\ RunReturned =>
            /\ UnoptimizedCode.ok
            /\ SameOutcome(VMState, Run(UnoptimizedCode.v, NewVM, Fuel))
    /\ phase = "run" =>
            \A n \in GlobalNames :
                SameOutcome(Run(<<OpStoreG(n), OpPop>>, Restarted, Fuel),
                            Run(<<OpMoveG(n)>>, Restarted, Fuel))

\* A run has returned from code in which one StoreG was rewritten and
\* another was not
C10_Witness ==
    /\ phase = "ran"
    /\ \E k \in 1..Len(code) : code[k].op = "MoveG"
    /\ \E k \in 1..Len(code) : code[k].op = "StoreG"
    /\ Len(code) < Len(UnoptimizedCode.v)

\* ----------------------------------------------------------------- C11

\* The expressions Parser::expression returns, one of each shape
ExprPool == <<
    AstInt(4),
    AstStr(SA),
    AstLst(<<AstVar("x"), AstInt(1), AstLst(<<>>)>>),
    AstVar("x"),
    AstBinOp("Add", AstVar("x"), AstInt(1)),
    AstBinOp("Sub", AstVar("x"), AstInt(1)),
    AstBinOp("Mul", AstVar("x"), AstInt(2)),
    AstBinOp("Div", AstInt(7), AstInt(2)),
    AstBinOp("Mod", AstInt(7), AstInt(2)),
    AstBinOp("Lt", AstVar("x"), AstVar("x")),
    AstBinOp("Lte", AstInt(1), AstInt(2)),
    AstBinOp("Gt", AstInt(1), AstInt(2)),
    AstBinOp("Gte", AstInt(1), AstInt(2)),
    AstBinOp("Eq", AstStr(SA), AstStr(SB)),
    AstBinOp("NotEq", AstStr(SA), AstStr(SB)),
    AstBinOp("Assign", AstVar("y"), AstVar("x")),
    AstBinOp("Assign", AstIndex(AstVar("x"), AstInt(0)), AstInt(1)),
    AstIndex(AstVar("x"), AstInt(0)),
    AstCall(AstVar("print"), <<>>),
    AstCall(AstVar("print"), <<AstVar("x"), AstInt(1)>>),
    AstCall(AstVar("length"), <<AstVar("x"), AstInt(1), AstInt(2)>>),
    AstCall(AstVar("to_string"), <<AstVar("x")>>),
    AstCall(AstVar("append"), <<AstVar("x"), AstInt(1), AstVar("x")>>),
    AstCall(AstVar("dump_stack"), <<>>)
>>

\* feed() of one tree on a new compiler, then build()
CodeOf(ast) ==
    LET c == Feed(NewCompiler, ast)
    IN IF c.err # NoError THEN Err(c.err) ELSE Build(c.code, c.target_count)

\* Statements of a program from whose states single trees are run
MaxProbed == 2

\* The stack grows by d when the code of ast runs to its end from VM m
DepthChange(ast, m, d) ==
    LET b == CodeOf(ast)
        r == Run(b.v, m, Fuel)
    IN b.ok /\ r.res = RunOk => Len(r.stack) = Len(m.stack) + d

\* C11: a successful run of a compiled program ends with an empty stack, no
\* compiled program returns StackUnderflow, and from every VM state of a
\* run (of a program of at most MaxProbed statements) the code of a
\* statement leaves the stack depth as it found it and the code of an
\* expression leaves one more entry.
C11_StackDiscipline ==
    /\ phase \in {"ran", "end"} => stack = <<>>
    /\ phase \in {"run", "ran", "end"} => ResultKind(res) # "StackUnderflow"
    /\ phase = "run" /\ nfed <= MaxProbed =>
            /\ \A k \in 1..Len(StmtPool) : DepthChange(StmtPool[k], Restarted, 0)
            /\ \A k \in 1..Len(ExprPool) : DepthChange(ExprPool[k], Restarted, 1)

\* The run of a program of two statements is in a state with entries on
\* the stack and a global bound, from which a loop, a conditional and an
\* expression run to their end
C11_Witness ==
    /\ phase = "run"
    /\ res = Running
    /\ nfed = 2
    /\ Len(stack) >= 2
    /\ \A k \in {5, 6} :
            Run(CodeOf(StmtPool[k]).v, Restarted, Fuel).res = RunOk
    /\ \E k \in 1..Len(StmtPool) :
            CodeOf(StmtPool[k]).ok
            /\ Run(CodeOf(StmtPool[k]).v, Restarted, Fuel).res = RunOk
    /\ \E k \in 1..Len(ExprPool) :
            Run(CodeOf(ExprPool[k]).v, Restarted, Fuel).res = RunOk

\* ----------------------------------------------------------------- C12

\* The entry at depth i of the stack the last opcode found
PrevAt(i) == prev.vm.stack[Len(prev.vm.stack) - i]

\* The value the last opcode found behind the entry at depth i
PrevValueAt(i) == prev.vm.heap[PrevAt(i) + 1]

\* run() has just executed opcode `name`, on a stack of at least n entries
\* that all referred to values
LastOpOn(name, n) ==
    /\ phase \in {"run", "raw"}
    /\ prev.n = 1
    /\ prev.op.op = name
    /\ Len(prev.vm.stack) >= n
    /\ \A i \in 0..(n - 1) : HoldsValue(prev.vm.heap, PrevAt(i))

\* The last opcode was IndexStore on (value, index, list) with the index an
\* integer inside the list
StoredInRange ==
    /\ LastOpOn("IndexStore", 3)
    /\ PrevValueAt(0).t = "List"
    /\ PrevValueAt(1).t = "Int"
    /\ PrevValueAt(1).n >= 0
    /\ PrevValueAt(1).n < Len(PrevValueAt(0).l)

\* C12: IndexStore of pointer v at xs[i], i in range, leaves xs with the
\* same length, v at index i and every other element as it was; an Index
\* read of xs[i] that follows pushes exactly v.
C12_StoreThenRead ==
    StoredInRange =>
        LET v    == PrevAt(2)
            i    == PrevValueAt(1).n
            old  == PrevValueAt(0).l
            read == Exec(Push(Push(VMState, PrevAt(0)), PrevAt(1)), OpPlain("Index"))
        IN /\ res = Running
           /\ heap[PrevAt(0) + 1].t = "List"
           /\ Len(heap[PrevAt(0) + 1].l) = Len(old)
           /\ \A j \in 1..Len(old) :
                heap[PrevAt(0) + 1].l[j] = IF j = i + 1 THEN v ELSE old[j]
           /\ read.res = Running
           /\ read.stack = Append(stack, v)

\* A store into the second place of a list of two that replaced another
\* pointer
C12_Witness ==
    /\ StoredInRange
    /\ PrevValueAt(1).n = 1
    /\ Len(PrevValueAt(0).l) = 2
    /\ PrevValueAt(0).l[2] # PrevAt(2)
    /\ res = Running

\* ----------------------------------------------------------------- C13

\* run() has just executed MakeList(k) on a stack of at least k entries
MadeList ==
    /\ phase \in {"run", "raw"}
    /\ prev.n = 1
    /\ prev.op.op = "MakeList"
    /\ prev.op.n <= Len(prev.vm.stack)

\* C13: MakeList(k) on a stack of at least k entries removes the top k
\* entries and pushes one new list whose elements are those k pointers in
\* push order; the values they refer to are kept, also when finding the slot
\* of the list ran a collection.
C13_MakeListPushOrder ==
    MadeList =>
        LET k    == prev.op.n
            old  == prev.vm.stack
            p    == Last(stack)
        IN /\ res = Running
           /\ Len(stack) = Len(old) - k + 1
           /\ DropN(stack, 1) = DropN(old, k)
           /\ heap[p + 1] = VList(TailN(old, k))
           /\ \A j \in 0..(k - 1) : heap[p + 1].l[j + 1] = old[Len(old) - k + 1 + j]
           /\ p \notin Live(prev.vm.heap, prev.vm.stack, prev.vm.top)
           /\ \A q \in Valued(prev.vm.heap, Range(TailN(old, k))) :
                heap[q + 1] = prev.vm.heap[q + 1]

\* A list of two made in the slot that the collection run for it has freed
C13_Witness ==
    /\ MadeList
    /\ prev.op.n = 2
    /\ prev.vm.free_list = <<>>
    /\ Last(stack) < Len(prev.vm.heap)
    /\ prev.vm.stack[Len(prev.vm.stack) - 1] # Last(prev.vm.stack)

\* ----------------------------------------------------------------- C14

\* run() has just executed Native(k, Append), k >= 2, on a stack of at least
\* k entries whose entry at depth k - 1 (the first argument) was a list
AppendedToFirst ==
    /\ phase \in {"run", "raw"}
    /\ prev.n = 1
    /\ prev.op.op = "Native"
    /\ prev.op.f = "Append"
    /\ prev.op.n >= 2
    /\ Len(prev.vm.stack) >= prev.op.n
    /\ HoldsValue(prev.vm.heap, PrevAt(prev.op.n - 1))
    /\ PrevValueAt(prev.op.n - 1).t = "List"

\* The list of the call is still referred to once the arguments are popped
StillReferenced(xs) ==
    xs \in Live(prev.vm.heap, DropN(prev.vm.stack, prev.op.n), prev.vm.top)

\* C14: append(xs, a1, ..., am), m >= 1, on a list xs of length n returns
\* n + m, and a length(xs) that follows returns n + m.
C14_AppendThenLength ==
    AppendedToFirst =>
        LET xs  == PrevAt(prev.op.n - 1)
            n   == Len(PrevValueAt(prev.op.n - 1).l)
            m   == prev.op.n - 1
            len == Exec(Push(VMState, xs), OpNative(1, "Length"))
        IN /\ res = Running
           /\ Len(stack) = Len(prev.vm.stack) - prev.op.n + 1
           /\ heap[Last(stack) + 1] = VInt(n + m)
           /\ StillReferenced(xs) =>
                /\ len.res = Running
                /\ len.heap[Last(len.stack) + 1] = VInt(n + m)

\* append(x, v, x) on the list bound to x
C14_Witness ==
    /\ AppendedToFirst
    /\ prev.op.n = 3
    /\ StillReferenced(PrevAt(2))
    /\ PrevAt(0) = PrevAt(2)
    /\ res = Running

\* ----------------------------------------------------------------- C15

\* run() has just executed Native(k, Append), k >= 2, on a stack of at least
\* k entries that all referred to values
AppendCalled ==
    /\ phase \in {"run", "raw"}
    /\ prev.n = 1
    /\ prev.op.op = "Native"
    /\ prev.op.f = "Append"
    /\ prev.op.n >= 2
    /\ Len(prev.vm.stack) >= prev.op.n
    /\ \A i \in 0..(prev.op.n - 1) : HoldsValue(prev.vm.heap, PrevAt(i))

\* The arguments at depths from..to of the call, in argument order
ArgsAtDepths(from, to) == [j \in 1..(from - to + 1) |-> PrevAt(from - j + 1)]

\* C15 as stated: the list modified is the last argument (depth 0), the
\* first k - 1 arguments are pushed onto it in argument order and the call
\* returns its new length.
C15_AppendToLastArgument ==
    AppendCalled /\ PrevValueAt(0).t = "List" /\ StillReferenced(PrevAt(0)) =>
        /\ res = Running
        /\ heap[PrevAt(0) + 1] =
                VList(PrevValueAt(0).l \o ArgsAtDepths(prev.op.n - 1, 1))
        /\ heap[Last(stack) + 1] = VInt(Len(PrevValueAt(0).l) + prev.op.n - 1)

\* C15 as amended: the list modified is the first argument (depth k - 1),
\* the other k - 1 arguments are pushed onto it by pointer in argument
\* order and the call returns its new length; a first argument that is not
\* a list gives InvalidAppend and no list is modified.
C15_AppendToFirstArgument ==
    AppendCalled =>
        LET k  == prev.op.n
            xs == PrevAt(k - 1)
        IN IF PrevValueAt(k - 1).t = "List"
           THEN /\ res = Running
                /\ heap[Last(stack) + 1] = VInt(Len(PrevValueAt(k - 1).l) + k - 1)
                /\ StillReferenced(xs) =>
                        heap[xs + 1] = VList(PrevValueAt(k - 1).l \o ArgsAtDepths(k - 2, 0))
           ELSE /\ res = ErrInvalidAppend(PrevValueAt(k - 1))
                /\ heap = prev.vm.heap

\* append(x, l, v): x is a list bound to a global, l another list and v,
\* the last argument, is not a list
C15_Witness ==
    /\ AppendCalled
    /\ prev.op.n = 3
    /\ PrevValueAt(2).t = "List"
    /\ StillReferenced(PrevAt(2))
    /\ PrevValueAt(1).t = "List"
    /\ PrevAt(1) # PrevAt(2)
    /\ PrevValueAt(0).t = "Int"
    /\ res = Running

\* ----------------------------------------------------------------- C16

\* Every pointer reached from slot p refers to a value
WellFormed(h, p) ==
    HoldsValue(h, p)
    /\ \A q \in LiveFrom(h, {p}) : \A r \in PointersOf(h[q + 1]) : HoldsValue(h, r)

\* The list in slot p is reached again from its own elements
ContainsItself(h, p) ==
    /\ HoldsValue(h, p)
    /\ p \in LiveFrom(h, Valued(h, PointersOf(h[p + 1])))

\* C16: for every value v in the heap whose pointers all refer to values,
\* lists that contain themselves included, cmp(v, v) returns 0.
C16_CmpReflexive ==
    BetweenOpcodes =>
        \A p \in Slots(heap) :
            WellFormed(heap, p) => Cmp(heap[p + 1], VMState, heap[p + 1], 0) = Ok(0)

\* ----------------------------------------------------------------- C17

\* cmp returned Error::IncompatibleOperands
Incompatible(r) == ~r.ok /\ r.err.k = "Err" /\ r.err.e = "IncompatibleOperands"

\* C17: for every two values of the heap, when cmp(a, b) returns a result
\* cmp(b, a) returns the opposite one, and when cmp(a, b) returns
\* incompatible operands so does cmp(b, a).
C17_CmpAntisymmetric ==
    BetweenOpcodes =>
        \A p, q \in Valued(heap, Slots(heap)) :
            LET ab == Cmp(heap[p + 1], VMState, heap[q + 1], 0)
                ba == Cmp(heap[q + 1], VMState, heap[p + 1], 0)
            IN /\ ab.ok => ba.ok /\ ab.v = -ba.v
               /\ Incompatible(ab) => Incompatible(ba)

\* A comparison opcode has run on two lists that differ in length only,
\* and the heap holds two strings in order and a string beside an integer
C17_Witness ==
    /\ LastOpOn("Lt", 2)
    /\ res = Running
    /\ PrevValueAt(0).t = "List" /\ PrevValueAt(1).t = "List"
    /\ PrevValueAt(0).l # <<>>
    /\ Len(PrevValueAt(0).l) < Len(PrevValueAt(1).l)
    /\ heap[Last(stack) + 1] = VInt(0)
    /\ \E p, q \in Valued(heap, Slots(heap)) :
            /\ heap[p + 1].t = "Str" /\ heap[q + 1].t = "Str"
            /\ Cmp(heap[p + 1], VMState, heap[q + 1], 0) = Ok(-1)
    /\ \E p, q \in Valued(heap, Slots(heap)) :
            Incompatible(Cmp(heap[p + 1], VMState, heap[q + 1], 0))

\* ----------------------------------------------------------------- C18

\* C18: JmpF(t) pops one entry; run() continues at t when the value popped
\* is the integer 0 and at pc + 1 for every other value.
C18_JmpFOnlyOnZero ==
    LastOpOn("JmpF", 1) =>
        /\ res = Running
        /\ stack = DropN(prev.vm.stack, 1)
        /\ heap = prev.vm.heap
        /\ pc = IF PrevValueAt(0) = VInt(0) THEN prev.op.t ELSE prev.pc + 1

\* JmpF to another address than the next one found an empty string or an
\* empty list and did not jump
C18_Witness ==
    /\ LastOpOn("JmpF", 1)
    /\ prev.op.t # prev.pc + 1
    /\ PrevValueAt(0).t # "Int"
    /\ ValueLength(PrevValueAt(0)) = 0
    /\ pc = prev.pc + 1

\* ----------------------------------------------------------------- C19

\* run() has just returned an Error from the opcode prev records
ReturnedError == phase \in {"run", "raw"} /\ prev.n = 1 /\ res.k = "Err"

\* C19: when run() returns an Error, the heap, the free list and the
\* globals are what they were before the failing opcode started.
C19_ErrorLeavesHeapAndGlobals ==
    ReturnedError =>
        /\ heap = prev.vm.heap
        /\ free_list = prev.vm.free_list
        /\ top = prev.vm.top

\* IndexStore returned IndexOutOfRange after it popped the list and the
\* index, which nothing else refers to
C19_Witness ==
    /\ ReturnedError
    /\ prev.op.op = "IndexStore"
    /\ res.e = "IndexOutOfRange"
    /\ top # <<>>
    /\ Len(stack) < Len(prev.vm.stack)
    /\ \E p \in Slots(heap) : heap[p + 1] # None /\ p \notin Live(heap, stack, top)

\* ----------------------------------------------------------------- C20

\* run() has just executed Div or Mod on two integers, the divisor 0
DividedByZero ==
    /\ phase \in {"run", "raw"}
    /\ prev.n = 1
    /\ prev.op.op \in {"Div", "Mod"}
    /\ Len(prev.vm.stack) >= 2
    /\ HoldsValue(prev.vm.heap, PrevAt(0)) /\ HoldsValue(prev.vm.heap, PrevAt(1))
    /\ PrevValueAt(0) = VInt(0)
    /\ PrevValueAt(1).t = "Int"

\* C20: Div or Mod of two integers with divisor 0 aborts: the operands are
\* popped, nothing is pushed or stored, no Error value is returned, and
\* nothing runs after the abort.
C20_DivideByZeroAborts ==
    /\ [](DividedByZero =>
            /\ res = Panic
            /\ stack = DropN(prev.vm.stack, 2)
            /\ heap = prev.vm.heap
            /\ pc = prev.pc)
    /\ [][res # Panic]_vars

\* A division by zero aborted a run whose vector could have gone on
C20_Witness ==
    /\ DividedByZero
    /\ phase = "raw"
    /\ nraw < MaxRawOps
    /\ res = Panic

\* ----------------------------------------------------------------- C21

\* The opcodes that return IncompatibleOperands on operands of other types
TypedOps == ArithOps \cup CmpOps \cup {"Index", "IndexStore"}

\* run() has just returned IncompatibleOperands from one of these opcodes
FailedOnTypes ==
    /\ ReturnedError
    /\ prev.op.op \in TypedOps
    /\ res.e = "IncompatibleOperands"

\* C21: when Add, Sub, Mul, Div, Mod, Lt, Lte, Gt, Gte, Eq, Neq, Index or
\* IndexStore fails on the types of its operands, the error carries the
\* opcode that was executed and the two operand values (for IndexStore the
\* list and the index).
C21_ErrorCarriesOpcode ==
    FailedOnTypes =>
        /\ res.op = prev.op.op
        /\ IF prev.op.op = "IndexStore"
           THEN res.lhs = PrevValueAt(0) /\ res.rhs = PrevValueAt(1)
           ELSE res.lhs = PrevValueAt(1) /\ res.rhs = PrevValueAt(0)

\* ----------------------------------------------------------------- C22

\* The last opcode was Index on a list or a string and an integer
IndexedByInt ==
    /\ LastOpOn("Index", 2)
    /\ PrevValueAt(1).t \in {"List", "Str"}
    /\ PrevValueAt(0).t = "Int"

\* The last opcode was IndexStore on (value, index, list), the index an
\* integer
StoredByInt ==
    /\ LastOpOn("IndexStore", 3)
    /\ PrevValueAt(0).t = "List"
    /\ PrevValueAt(1).t = "Int"

InRange(i, v) == 0 <= i /\ i < ValueLength(v)

\* C22: Index on a list or string of length n and an integer i pushes the
\* element (the pointer held by the list, the code point of the string) if
\* and only if 0 <= i < n; for every other i, negative ones included, it
\* returns IndexOutOfRange and pushes nothing.  IndexStore on a list obeys
\* the same bound and leaves the list, and the heap, as it was when out of
\* range.
C22_IndexBounds ==
    /\ IndexedByInt =>
        LET xs == PrevValueAt(1)
            i  == PrevValueAt(0).n
        IN IF InRange(i, xs)
           THEN /\ res = Running
                /\ Len(stack) = Len(prev.vm.stack) - 1
                /\ Front(stack) = DropN(prev.vm.stack, 2)
                /\ IF xs.t = "List" THEN Last(stack) = xs.l[i + 1]
                   ELSE heap[Last(stack) + 1] = VInt(xs.s[i + 1])
           ELSE /\ res.k = "Err"
                /\ res.e = "IndexOutOfRange"
                /\ stack = DropN(prev.vm.stack, 2)
                /\ heap = prev.vm.heap
    /\ StoredByInt =>
        LET xs == PrevValueAt(0)
            i  == PrevValueAt(1).n
        IN IF InRange(i, xs)
           THEN res = Running
           ELSE /\ res.k = "Err"
                /\ res.e = "IndexOutOfRange"
                /\ heap = prev.vm.heap
                /\ stack = DropN(prev.vm.stack, 2)

\* A call of run() on a VM an earlier call bound x in: Index was refused a
\* negative index
C22_Witness ==
    /\ IndexedByInt
    /\ nruns > 1
    /\ PrevValueAt(0).n < 0
    /\ ValueLength(PrevValueAt(1)) > 0
    /\ res.k = "Err"

\* ----------------------------------------------------------------- C23

\* run() has just executed the opcode prev records
Executed == phase \in {"run", "raw"} /\ prev.n = 1

\* C23: LoadG(name) on an unbound name returns GlobalNotFound(name) and
\* leaves the stack, the heap and the globals as they were, and on a bound
\* name pushes the pointer the name is bound to; StoreG(name) and
\* MoveG(name) bind the name to the pointer on top of the stack, whether or
\* not it was bound, and change no other binding; no other opcode changes
\* the globals.  So a LoadG(name) pushes the pointer stored last.
C23_GlobalsLoadStore ==
    Executed =>
        CASE prev.op.op = "LoadG" ->
                IF prev.op.s \in DOMAIN prev.vm.top
                THEN /\ res = Running
                     /\ stack = Append(prev.vm.stack, prev.vm.top[prev.op.s])
                     /\ top = prev.vm.top
                ELSE /\ res = ErrGlobalNotFound(prev.op.s)
                     /\ stack = prev.vm.stack
                     /\ heap = prev.vm.heap
                     /\ top = prev.vm.top
          [] prev.op.op \in {"StoreG", "MoveG"} /\ prev.vm.stack # <<>> ->
                /\ res = Running
                /\ DOMAIN top = DOMAIN prev.vm.top \cup {prev.op.s}
                /\ top[prev.op.s] = PrevAt(0)
                /\ \A g \in DOMAIN prev.vm.top \ {prev.op.s} : top[g] = prev.vm.top[g]
                /\ stack = IF prev.op.op = "MoveG" THEN Front(prev.vm.stack)
                           ELSE prev.vm.stack
          [] OTHER -> top = prev.vm.top

\* x was bound, bound again to another pointer by a later call of run(), and
\* LoadG x in a third call has pushed the second pointer
C23_Witness ==
    /\ Executed
    /\ nruns = 3
    /\ prev.op.op = "LoadG"
    /\ prev.op.s = "x"
    /\ res = Running
    /\ Last(stack) = top["x"]
    /\ heap[top["x"] + 1] = VStr(SA \o SB)
    /\ \E p \in Slots(heap) : heap[p + 1].t = "List"

\* ----------------------------------------------------------------- C24

\* The trees of a tree, itself included, parents before children
RECURSIVE Nodes(_), NodesOfAll(_, _)
Nodes(ast) ==
    IF ast.a = "Absent" THEN <<>> ELSE
    <<ast>> \o
    CASE ast.a \in {"Int", "Str", "Var"} -> <<>>
      [] ast.a = "Sttm" -> Nodes(ast.e)
      [] ast.a = "Lst" -> NodesOfAll(ast.lst, 1)
      [] ast.a \in {"BinOp", "Index"} -> Nodes(ast.lhs) \o Nodes(ast.rhs)
      [] ast.a = "Loop" ->
            Nodes(ast.st) \o Nodes(ast.cmp) \o Nodes(ast.body) \o Nodes(ast.up)
      [] ast.a = "IfElse" ->
            Nodes(ast.conditional) \o Nodes(ast.if_true) \o Nodes(ast.if_false)
      [] ast.a = "Block" -> NodesOfAll(ast.asts, 1)
      [] ast.a = "Call" -> NodesOfAll(ast.args, 1)

NodesOfAll(asts, i) ==
    IF i > Len(asts) THEN <<>> ELSE Nodes(asts[i]) \o NodesOfAll(asts, i + 1)

\* Every tree of the statements and expressions compiled
AllNodes == NodesOfAll(StmtPool, 1) \o NodesOfAll(ExprPool, 1)

\* The opcodes feed(ast) adds to the code of compiler c
Fed(c, ast) ==
    LET d == Feed(c, ast) IN SubSeq(d.code, Len(c.code) + 1, Len(d.code))

RECURSIVE FedInOrder(_, _, _)
\* The opcodes of asts[i], asts[i + 1], ... one tree after the other
FedInOrder(c, asts, i) ==
    IF i > Len(asts) THEN <<>> ELSE Fed(c, asts[i]) \o FedInOrder(c, asts, i + 1)

\* feed(ast) returns Ok on compiler c
Feeds(c, ast) == Feed(c, ast).err = NoError

\* The code of a binary operator other than assignment, of a list literal
\* and of a call is the code of the operands in source order, then the
\* opcode of the node
InSourceOrder(c, e) ==
    CASE e.a = "BinOp" /\ e.kind # "Assign" ->
            Fed(c, e) = Fed(c, e.lhs) \o Fed(c, e.rhs) \o <<OpFromTk(e.kind)>>
      [] e.a = "Lst" ->
            Fed(c, e) = FedInOrder(c, e.lst, 1) \o <<OpMakeList(Len(e.lst))>>
      [] e.a = "Call" ->
            /\ SubSeq(Fed(c, e), 1, Len(Fed(c, e)) - 1) = FedInOrder(c, e.args, 1)
            /\ Last(Fed(c, e)).op = "Native"
      [] OTHER -> TRUE

\* The code of an assignment runs the opcodes of the left operand (of the
\* target and of the index, in either order) before those of the right one
AssignLeftFirst(c, e) ==
    e.a = "BinOp" /\ e.kind = "Assign" /\ e.lhs.a = "Index" =>
        LET T == Fed(c, e.lhs.lhs)
            I == Fed(c, e.lhs.rhs)
        IN \/ Fed(c, e) = T \o I \o Fed(c, e.rhs) \o <<OpPlain("IndexStore")>>
           \/ Fed(c, e) = I \o T \o Fed(c, e.rhs) \o <<OpPlain("IndexStore")>>

\* The code of an assignment runs the opcodes of the right operand first,
\* then for an indexed target those of the index and those of the target
AssignRightFirst(c, e) ==
    e.a = "BinOp" /\ e.kind = "Assign" =>
        CASE e.lhs.a = "Var" -> Fed(c, e) = Fed(c, e.rhs) \o <<OpStoreG(e.lhs.s)>>
          [] e.lhs.a = "Index" ->
                Fed(c, e) = Fed(c, e.rhs) \o Fed(c, e.lhs.rhs) \o Fed(c, e.lhs.lhs)
                                \o <<OpPlain("IndexStore")>>
          [] OTHER -> TRUE

\* The trees the compiler in its current state feeds without an error
FedNow(k) ==
    phase = "compile" /\ nfed <= MaxProbed /\ Feeds(CompilerState, AllNodes[k])

\* run() executes the opcodes that are not jumps one after the other
RunsInVectorOrder ==
    phase = "run" /\ phase' = "run" /\ res' = Running /\ ~IsJump(code[pc + 1])
        => pc' = pc + 1

\* C24 as stated: for every binary operator, assignment included, the
\* opcodes of the left operand come before those of the right operand; list
\* elements and call arguments are in source order; opcodes run in the
\* order of the vector.
C24_LeftToRight ==
    /\ [](\A k \in 1..Len(AllNodes) :
            FedNow(k) => /\ InSourceOrder(CompilerState, AllNodes[k])
                         /\ AssignLeftFirst(CompilerState, AllNodes[k]))
    /\ [][RunsInVectorOrder]_vars

\* C24, amended: left to right for every binary operator other than
\* assignment, for list elements and for call arguments; an assignment runs
\* its right operand first, then the index and the target of an indexed
\* left operand; opcodes run in the order of the vector.
C24_LeftToRightButAssign ==
    /\ [](\A k \in 1..Len(AllNodes) :
            FedNow(k) => /\ InSourceOrder(CompilerState, AllNodes[k])
                         /\ AssignRightFirst(CompilerState, AllNodes[k]))
    /\ [][RunsInVectorOrder]_vars

\* The code of `x[0] = y = x;` has run: y was bound by the right operand
\* before IndexStore stored into the list the left operand names
C24_Witness ==
    /\ LastOpOn("IndexStore", 3)
    /\ phase = "run"
    /\ res = Running
    /\ "y" \in DOMAIN top
    /\ top["y"] = PrevAt(0)
    /\ heap[PrevAt(0) + 1].l[1] = PrevAt(0)

\* ----------------------------------------------------------------- C25

\* "[...]"
Ellipsis == <<91, 46, 46, 46, 93>>

\* s between n pairs of brackets
RECURSIVE Bracketed(_, _)
Bracketed(s, n) == IF n = 0 THEN s ELSE <<91>> \o Bracketed(s, n - 1) \o <<93>>

\* The VM with a heap in which no slot can be read
Heapless == [VMState EXCEPT !.heap = <<>>]

\* The last opcode was print of n arguments, from each of which only values
\* are reached
Printed(n) ==
    /\ LastOpOn("Native", n)
    /\ prev.op.f = "Print"
    /\ prev.op.n = n
    /\ \A i \in 0..(n - 1) : WellFormed(prev.vm.heap, PrevAt(i))

\* C25: formatting returns for every value of every heap, lists that
\* contain themselves included, with a string or with the Error of a
\* pointer that refers to no value; a list at depth greater than three is
\* rendered as [...] without a read of the heap, so that the list whose
\* only element is itself is rendered as [[[[[...]]]]]; print returns.
C25_FormatTerminates ==
    /\ BetweenOpcodes =>
        \A p \in Valued(heap, Slots(heap)) :
            LET v == heap[p + 1]
                f == Fmt(v, VMState, 0)
            IN /\ f.ok \/ f.err.k = "Err"
               /\ WellFormed(heap, p) => f.ok
               /\ v.t = "List" =>
                    /\ Fmt(v, Heapless, FmtDepthCap + 1) = Ok(Ellipsis)
                    /\ \A d \in 0..FmtDepthCap :
                            v.l # <<>> => ~Fmt(v, Heapless, d).ok
               /\ v = VList(<<p>>) => f = Ok(Bracketed(Ellipsis, FmtDepthCap + 1))
    /\ \A n \in 1..2 : Printed(n) => res = Running /\ Last(out) = 10

\* print has written a list that contains itself
C25_Witness ==
    /\ Printed(2)
    /\ ContainsItself(prev.vm.heap, PrevAt(0))
    /\ res = Running
    /\ Len(out) > Len(Bracketed(Ellipsis, FmtDepthCap + 1))

\* ----------------------------------------------------------------- C26

\* A call of run() starts: the VM is as the call before left it, and pc is 0
RunStartsOnSameVM ==
    nruns' = nruns + 1 =>
        /\ heap' = heap
        /\ stack' = stack
        /\ top' = top
        /\ free_list' = free_list
        /\ pc' = 0
        /\ res' = Running

\* The first opcode a call executes is the one at address 0 of its vector
FirstOpcodeIsAtZero ==
    prev.n = 0 /\ prev'.n = 1 => prev'.pc = 0 /\ prev'.op = code'[1]

\* The first opcode of a later call was LoadG of a name bound before the call
LoadedAtStart ==
    /\ Executed
    /\ nruns > 1
    /\ prev.pc = 0
    /\ prev.op.op = "LoadG"
    /\ prev.op.s \in DOMAIN prev.vm.top

\* C26: a call of run() finds the heap, the stack, the globals and the free
\* list as the call before left them and starts at address 0 of its
\* vector; a global bound before the call is loaded by it, the pointer and
\* the value behind it unchanged.
C26_StateSurvivesRuns ==
    /\ [][RunStartsOnSameVM /\ FirstOpcodeIsAtZero]_vars
    /\ [](LoadedAtStart =>
            /\ res = Running
            /\ Last(stack) = prev.vm.top[prev.op.s]
            /\ heap = prev.vm.heap
            /\ top = prev.vm.top)

\* The third call loads the list the first one bound to x, above the entry
\* the second one left on the stack
C26_Witness ==
    /\ LoadedAtStart
    /\ nruns = 3
    /\ prev.op.s = "x"
    /\ Len(stack) = 2
    /\ heap[Last(stack) + 1].t = "List"
    /\ heap[stack[1] + 1] = VInt(5)

\* ----------------------------------------------------------------- C27

\* Slot p held a value before the last opcode and holds another one now
Changed(p) ==
    /\ HoldsValue(prev.vm.heap, p)
    /\ HoldsValue(heap, p)
    /\ heap[p + 1] # prev.vm.heap[p + 1]

\* Slot p was allocated by the last opcode for the value it pushed: nothing
\* the opcode left on the stack under its result, and no global, reached p
NewlyAllocated(p) ==
    /\ res = Running
    /\ stack # <<>>
    /\ p = Last(stack)
    /\ p \notin Live(prev.vm.heap, Front(stack), prev.vm.top)

\* p is the list IndexStore has stored into
StoredInto(p) ==
    /\ prev.op.op = "IndexStore"
    /\ p = PrevAt(0)
    /\ prev.vm.heap[p + 1].t = "List"
    /\ heap[p + 1].t = "List"
    /\ Len(heap[p + 1].l) = Len(prev.vm.heap[p + 1].l)

\* p is the list append has extended: its first argument
AppendedTo(p) ==
    /\ prev.op.op = "Native"
    /\ prev.op.f = "Append"
    /\ prev.op.n >= 1
    /\ Len(prev.vm.stack) >= prev.op.n
    /\ p = PrevAt(prev.op.n - 1)
    /\ prev.vm.heap[p + 1].t = "List"
    /\ heap[p + 1].t = "List"
    /\ SubSeq(heap[p + 1].l, 1, Len(prev.vm.heap[p + 1].l)) = prev.vm.heap[p + 1].l

\* C27 as stated: an opcode changes the value of a slot that held one only
\* if it is IndexStore on that list or if the slot is newly allocated.
C27_OnlyIndexStoreMutates ==
    Executed =>
        \A p \in Slots(prev.vm.heap) :
            Changed(p) => StoredInto(p) \/ NewlyAllocated(p)

\* C27, amended: the value of a slot that held one changes only in
\* IndexStore on that list, in append to that list, which extends it, or
\* when the slot is newly allocated.
C27_OnlyStoreAndAppendMutate ==
    Executed =>
        \A p \in Slots(prev.vm.heap) :
            Changed(p) => StoredInto(p) \/ AppendedTo(p) \/ NewlyAllocated(p)

\* append has extended a list a global is bound to
C27_Witness ==
    /\ Executed
    /\ res = Running
    /\ \E p \in Slots(prev.vm.heap) :
            /\ Changed(p)
            /\ AppendedTo(p)
            /\ p \in Range(top)
            /\ Len(heap[p + 1].l) > Len(prev.vm.heap[p + 1].l)

\* ----------------------------------------------------------------- C28

\* The addresses of the jumps that go backwards: in compiled code, the
\* Jmp(start) that ends a loop
BackJumps ==
    {b \in 0..(Len(code) - 1) : code[b + 1].op = "Jmp" /\ code[b + 1].t <= b}

\* The first instruction of the condition of the loop that ends at b
LoopStart(b) == code[b + 1].t

\* The addresses of the conditional jumps from the start of the loop on
TestsOf(b) == {j \in LoopStart(b)..b : code[j + 1].op = "JmpF"}

\* The JmpF that follows the condition of the loop that ends at b
LoopTest(b) == CHOOSE j \in TestsOf(b) : \A k \in TestsOf(b) : j <= k

\* `x = 0; while x < 2 { x = x + 1; }`
WhileExample == CodeOf(AstBlock(<<StmtPool[4], StmtPool[5]>>)).v

\* C28: in the compiled code of `while c body` the JmpF after the condition
\* goes to the instruction after the loop; after it control is at the first
\* instruction of the body when the value of the condition is not the
\* integer 0 and after the loop when it is; the body is entered from that
\* JmpF only; after the body control is at the first instruction of the
\* condition; and `x = 0; while x < 2 { x = x + 1; }` ends with x bound to 2.
C28_WhileLoop ==
    /\ phase = "run" /\ Executed =>
        \A b \in BackJumps :
            /\ TestsOf(b) # {}
            /\ LET s == LoopStart(b)
                   j == LoopTest(b)
               IN /\ \A k \in s..(j - 1) : ~IsJump(code[k + 1])
                  /\ code[j + 1].t = b + 1
                  /\ prev.pc = j /\ res = Running =>
                        pc = IF PrevValueAt(0) = VInt(0) THEN b + 1 ELSE j + 1
                  /\ res = Running /\ pc = j + 1 /\ prev.pc \notin (j + 1)..b =>
                        prev.pc = j /\ PrevValueAt(0) # VInt(0)
                  /\ res = Running /\ pc = b + 1 /\ prev.pc \in s..b =>
                        prev.pc = j /\ PrevValueAt(0) = VInt(0)
                  /\ prev.pc = b => pc = s /\ res = Running
    /\ phase = "ran" /\ code = WhileExample =>
            "x" \in DOMAIN top /\ heap[top["x"] + 1] = VInt(2)

\* The loop of the example has run its body and has just been left, the run
\* at its end
C28_Witness ==
    /\ phase = "run"
    /\ Executed
    /\ code = WhileExample
    /\ BackJumps # {}
    /\ \E b \in BackJumps :
            /\ prev.pc = LoopTest(b)
            /\ LoopStart(b) > 0
            /\ pc = b + 1
            /\ pc = Len(code)
    /\ heap[top["x"] + 1] = VInt(2)

\* ----------------------------------------------------------------- C29

\* The opcodes that call find_free_slot
AllocOps ==
    {"PushI", "PushS", "MakeList", "Native", "Index"} \cup CmpOps \cup ArithOps

\* The step is made by run() and holds a call of collect()
CollectsInRun == phase' \in {"run", "raw"} /\ gc' # gc

\* The step is made by run() and makes the heap longer
GrowsInRun == phase' \in {"run", "raw"} /\ Len(heap') # Len(heap)

\* What one step of run() does to the heap
LazyCollection ==
    /\ CollectsInRun =>
            /\ free_list = <<>>
            /\ prev'.op.op \in AllocOps
            /\ Len(gc'.pre.heap) = Len(heap)
            /\ gc'.pre.top = top
            /\ gc'.pre.free_list = <<>>
    /\ phase' \in {"run", "raw"} /\ free_list # <<>> =>
            /\ gc' = gc
            /\ Len(heap') = Len(heap)
            /\ Len(free_list') >= Len(free_list) - 1
    /\ GrowsInRun =>
            /\ Len(heap') = Len(heap) + 1
            /\ prev'.op.op \in AllocOps
            /\ CollectsInRun
            /\ gc'.post.free_list = <<>>
            /\ Slots(gc'.post.heap) = Slots(heap)
            /\ Live(gc'.post.heap, gc'.post.stack, gc'.post.top) = Slots(heap)

\* C29: during run() a collection happens only inside an allocating opcode
\* that found the free list empty; an opcode that finds a free slot in the
\* free list neither collects nor grows the heap; the heap grows by one
\* slot at a time, and only after a collection that left every slot
\* reachable from the stack or the globals.
C29_LazyCollection == [][LazyCollection]_vars

\* An allocation has just taken a slot of the free list that the last
\* collection filled, the heap as long as before
C29_Witness ==
    /\ Executed
    /\ prev.op.op \in AllocOps
    /\ prev.vm.free_list # <<>>
    /\ res = Running
    /\ Len(heap) = Len(prev.vm.heap)
    /\ HoldsValue(heap, Last(prev.vm.free_list))
    /\ gc.n = 1
    /\ gc.post.free_list # <<>>
    /\ Len(gc.post.heap) = Len(heap)

\* ----------------------------------------------------------------- C30

\* addr[k]: how many of the first k - 1 opcodes of c are not Target, for k
\* up to Len(c) + 1
RECURSIVE CountsBefore(_, _, _)
CountsBefore(c, k, acc) ==
    IF k > Len(c) THEN acc
    ELSE CountsBefore(c, k + 1,
            Append(acc, Last(acc) + (IF c[k].op # "Target" THEN 1 ELSE 0)))

\* The position in c of the marker Target(id)
MarkerOf(c, id) == CHOOSE m \in 1..Len(c) : c[m].op = "Target" /\ c[m].id = id

\* The positions of the opcodes other than Target that follow position m
FollowersOf(c, m) == {n \in (m + 1)..Len(c) : c[n].op # "Target"}

\* The address, in c without its markers, of the opcode that follows
\* Target(id) in c, or the length of c without its markers
AddressAfter(c, addr, id) ==
    LET F == FollowersOf(c, MarkerOf(c, id))
    IN IF F = {} THEN addr[Len(c) + 1]
       ELSE addr[CHOOSE n \in F : \A k \in F : n <= k]

\* The code the peephole pass leaves: the input of expand_targets
Optimised == Optimize(ccode)

\* build() has just returned the vector; no opcode of it has run yet
JustBuilt == phase = "run" /\ prev.n = 0

\* C30: the vector build() returns holds the opcodes of the optimised code
\* other than Target in the same order, each one unchanged except that a
\* Jmp or JmpF that referred to Target(id) holds the address of the opcode
\* that followed the marker Target(id), or the length of the vector when
\* none followed.
C30_JumpsResolvedExactly ==
    JustBuilt =>
        LET opt  == Optimised
            addr == CountsBefore(opt, 1, <<0>>)
        IN /\ Len(code) = addr[Len(opt) + 1]
           /\ \A k \in 1..Len(opt) :
                opt[k].op # "Target" =>
                    LET f == code[addr[k] + 1]
                    IN IF IsJump(opt[k])
                       THEN /\ f.op = opt[k].op
                            /\ f.t = AddressAfter(opt, addr, opt[k].t)
                       ELSE f = opt[k]

\* build() has returned a vector shorter than the code fed, with a jump
\* backwards, a jump forwards to an opcode and a jump to the end of the
\* vector
C30_Witness ==
    /\ JustBuilt
    /\ Len(ccode) > Len(code) + 2
    /\ Len(Optimised) < Len(ccode)
    /\ \E k \in 1..Len(code) : IsJump(code[k]) /\ code[k].t < k
    /\ \E k \in 1..Len(code) : IsJump(code[k]) /\ code[k].t > k /\ code[k].t < Len(code)
    /\ \E k \in 1..Len(code) : IsJump(code[k]) /\ code[k].t = Len(code)

\* ----------------------------------------------------------------- C31

\* The address a jump at address j goes to
TargetOf(j) == code[j + 1].t

\* The addresses of the JmpF of the conditionals: the conditional jumps
\* forwards whose target does not follow the back jump of a loop
IfTests ==
    {j \in 0..(Len(code) - 1) :
        /\ code[j + 1].op = "JmpF"
        /\ TargetOf(j) > j
        /\ (TargetOf(j) - 1) \notin BackJumps}

\* The conditional tested at j has an else-branch: its then-branch ends with
\* a Jmp forwards, right before the target of the JmpF
HasElse(j) ==
    LET t == TargetOf(j)
    IN t - 1 > j /\ code[t].op = "Jmp" /\ code[t].t >= t

\* The address that follows the whole conditional tested at j
IfEnd(j) == IF HasElse(j) THEN code[TargetOf(j)].t ELSE TargetOf(j)

\* The addresses of the then-branch and of the else-branch
ThenBranch(j) == (j + 1)..(IF HasElse(j) THEN TargetOf(j) - 2 ELSE TargetOf(j) - 1)

ElseBranch(j) == IF HasElse(j) THEN TargetOf(j)..(IfEnd(j) - 1) ELSE {}

\* x = 0; then the else-if chain of the pool once, and twice
ChainOnce == CodeOf(AstBlock(<<StmtPool[4], StmtPool[12]>>)).v

ChainTwice == CodeOf(AstBlock(<<StmtPool[4], StmtPool[12], StmtPool[12]>>)).v

\* x = 0; while x < 2 { x = x + 1; } then the chain
ChainAfterLoop == CodeOf(AstBlock(<<StmtPool[4], StmtPool[5], StmtPool[12]>>)).v

\* x is bound to the integer n
XIs(n) == "x" \in DOMAIN top /\ heap[top["x"] + 1] = VInt(n)

\* C31: in the compiled code of an if/else the JmpF after the condition
\* leads to the then-branch when the value is not the integer 0 and
\* otherwise to the else-branch, or past the conditional when there is none;
\* each branch is entered from that JmpF only; the then-branch ends with a
\* jump past the else-branch; the jumps of a branch stay inside it or go to
\* its end; an else-if chain ends where its last conditional ends.  The
\* chain `if x == 0 { x = 1; } else if x == 1 { x = 2; } else { x = 0; }`
\* turns 0 into 1, 1 into 2 and 2 into 0.
C31_IfElse ==
    /\ phase = "run" /\ Executed =>
        \A j \in IfTests :
            LET t == TargetOf(j)
                e == IfEnd(j)
            IN /\ e >= t /\ e <= Len(code)
               /\ ThenBranch(j) \cap ElseBranch(j) = {}
               /\ \A k \in ThenBranch(j) :
                    IsJump(code[k + 1]) =>
                        TargetOf(k) \in ThenBranch(j) \cup {t - 1, t, e}
               /\ \A k \in ElseBranch(j) :
                    IsJump(code[k + 1]) => TargetOf(k) \in ElseBranch(j) \cup {e}
               /\ prev.pc = j /\ res = Running =>
                    pc = IF PrevValueAt(0) = VInt(0) THEN t ELSE j + 1
               /\ res = Running /\ pc = j + 1 /\ prev.pc \notin ThenBranch(j) =>
                    prev.pc = j /\ PrevValueAt(0) # VInt(0)
               /\ res = Running /\ pc = t /\ HasElse(j) /\ prev.pc \notin ElseBranch(j) =>
                    prev.pc = j /\ PrevValueAt(0) = VInt(0)
               /\ HasElse(j) /\ prev.pc = t - 1 => pc = e /\ res = Running
               /\ res = Running /\ pc \in ElseBranch(j) => prev.pc \notin ThenBranch(j)
    /\ phase = "ran" /\ code = ChainOnce => XIs(1)
    /\ phase = "ran" /\ code = ChainTwice => XIs(2)
    /\ phase = "ran" /\ code = ChainAfterLoop => XIs(0)

\* The second conditional of an else-if chain has just sent control to its
\* then-branch, the first one having sent it to its else-branch
C31_Witness ==
    /\ phase = "run"
    /\ Executed
    /\ code = ChainTwice
    /\ \E i, j \in IfTests :
            /\ HasElse(i) /\ HasElse(j)
            /\ j \in ElseBranch(i)
            /\ IfEnd(j) = IfEnd(i)
            /\ prev.pc = j
            /\ pc = j + 1
    /\ XIs(1)

\* ----------------------------------------------------------------- C32

\* The last opcode was Add on two lists, and it has pushed its result
AddedLists ==
    /\ LastOpOn("Add", 2)
    /\ PrevValueAt(1).t = "List"
    /\ PrevValueAt(0).t = "List"
    /\ res = Running

\* C32: Add on the lists a and b pushes a list in a slot that held no value
\* or was not reachable, of length len(a) + len(b), whose elements refer,
\* after the Add, to the values the elements of a and then those of b
\* referred to before it; an operand that is still referenced is unchanged.
C32_AddConcatenates ==
    AddedLists =>
        LET a   == PrevValueAt(1).l
            b   == PrevValueAt(0).l
            sum == heap[Last(stack) + 1]
        IN /\ Front(stack) = DropN(prev.vm.stack, 2)
           /\ sum.t = "List"
           /\ Len(sum.l) = Len(a) + Len(b)
           /\ \A i \in 1..Len(sum.l) :
                LET old == (a \o b)[i]
                IN HoldsValue(prev.vm.heap, old) =>
                        /\ HoldsValue(heap, sum.l[i])
                        /\ heap[sum.l[i] + 1] = prev.vm.heap[old + 1]
           /\ \A i \in 0..1 :
                PrevAt(i) \in Live(heap, Front(stack), top) =>
                    heap[PrevAt(i) + 1] = PrevValueAt(i)

\* ----------------------------------------------------------------- C33

\* run() has just executed Mul on two operands that referred to values
Multiplied == LastOpOn("Mul", 2)

\* The operand pairs Mul is defined on: two integers, or a string or a list
\* on the left with a count n >= 0 on the right
MulPair(a, b) ==
    /\ b.t = "Int"
    /\ a.t = "Int" \/ (a.t \in {"Str", "List"} /\ b.n >= 0)

\* Sequence s written n times over
Times(s, n) == [i \in 1..(n * Len(s)) |-> s[((i - 1) % Len(s)) + 1]]

DividedInts ==
    /\ \/ LastOpOn("Div", 2)
       \/ LastOpOn("Mod", 2)
    /\ PrevValueAt(1).t = "Int"
    /\ PrevValueAt(0).t = "Int"
    /\ PrevValueAt(0).n # 0
    /\ ~(PrevValueAt(1).n = MinInt /\ PrevValueAt(0).n = -1)

Magnitude(n) == IF n < 0 THEN 0 - n ELSE n

\* r is a remainder of a by b that is zero or has the sign of a
RemainderOf(r, a, b) ==
    /\ Magnitude(r) < Magnitude(b)
    /\ r = 0 \/ ((r < 0) = (a < 0))

\* C34: for integers a and b, b # 0, whose quotient fits in the width, Div
\* pushes the quotient q truncated toward zero and Mod the remainder r, with
\* a = q * b + r and r zero or of the sign of a; -7 / 2 is -3 and -7 % 2
\* is -1.
C34_DivModTruncate ==
    DividedInts =>
        LET a == PrevValueAt(1).n
            b == PrevValueAt(0).n
        IN /\ res = Running
           /\ Front(stack) = DropN(prev.vm.stack, 2)
           /\ heap[Last(stack) + 1].t = "Int"
           /\ LET c == heap[Last(stack) + 1].n
              IN IF prev.op.op = "Div"
                 THEN /\ RemainderOf(a - c * b, a, b)
                      /\ (a = -7 /\ b = 2) => c = -3
                 ELSE /\ RemainderOf(c, a, b)
                      /\ Magnitude(a - c) % Magnitude(b) = 0
                      /\ (a = -7 /\ b = 2) => c = -1

\* -7 % 2 has pushed -1
C34_Witness ==
    /\ DividedInts
    /\ prev.op.op = "Mod"
    /\ PrevValueAt(1).n = -7
    /\ PrevValueAt(0).n = 2
    /\ res = Running
    /\ heap[Last(stack) + 1] = VInt(-1)

\* ----------------------------------------------------------------- C35

\* The stack entries an opcode consumes or reads
Consumes(op) ==
    CASE op.op \in {"Pop", "StoreG", "MoveG", "JmpF"} -> 1
      [] op.op = "Dup" -> op.i + 1
      [] op.op \in ArithOps \cup CmpOps \cup {"Index"} -> 2
      [] op.op = "IndexStore" -> 3
      [] op.op \in {"Native", "MakeList"} -> op.n
      [] OTHER -> 0

\* run() has just executed an opcode on a stack of fewer entries than the
\* opcode consumes
Underflowed ==
    /\ phase \in {"run", "raw"}
    /\ prev.n = 1
    /\ Len(prev.vm.stack) < Consumes(prev.op)

\* The same, the opcode not MakeList
UnderflowedButMakeList == Underflowed /\ prev.op.op # "MakeList"

\* C35: an opcode executed on a stack of fewer entries than it consumes
\* makes run() return StackUnderflow; the process is not aborted.
C35_UnderflowIsAnError == Underflowed => res = ErrStackUnderflow

\* The part of C35 that leaves MakeList out
C35_UnderflowButMakeList == UnderflowedButMakeList => res = ErrStackUnderflow

\* ----------------------------------------------------------------- C36

\* The names bound to pointer p in the globals tp
NamesOf(tp, p) == {g \in DOMAIN tp : tp[g] = p}

\* StoreG or MoveG has just bound a name to the pointer another name holds
BoundToSame ==
    /\ \/ LastOpOn("StoreG", 1)
       \/ LastOpOn("MoveG", 1)
    /\ NamesOf(prev.vm.top, PrevAt(0)) \ {prev.op.s} # {}

\* IndexStore has just stored into a list that two names hold
StoredThroughAlias ==
    /\ StoredInRange
    /\ res = Running
    /\ Cardinality(NamesOf(prev.vm.top, PrevAt(0))) >= 2

\* An arithmetic or comparison opcode has just pushed its result
Computed ==
    /\ phase \in {"run", "raw"}
    /\ prev.n = 1
    /\ prev.op.op \in ArithOps \cup CmpOps
    /\ res = Running

\* The values seen through the globals tp in heap h, lists followed
SeenThrough(h, tp) == [g \in DOMAIN tp |-> DeepValue(h, tp[g], FmtDepthCap)]

\* Aliasing: after `b = a` both names hold the same pointer, and a
\* value stored by IndexStore into the list of one name is the element read
\* through every name of that list.
AliasesShareStores ==
    /\ BoundToSame =>
            /\ res = Running
            /\ \A g \in NamesOf(prev.vm.top, PrevAt(0)) : top[prev.op.s] = top[g]
    /\ StoredThroughAlias =>
            \A g \in NamesOf(prev.vm.top, PrevAt(0)) :
                /\ top[g] = PrevAt(0)
                /\ heap[top[g] + 1].l[PrevValueAt(1).n + 1] = PrevAt(2)

\* Rebinding: the result of an arithmetic or comparison opcode goes to
\* a slot no global leads to, and the values seen through the globals are
\* the ones seen before the opcode.
ResultsLeaveGlobalsAlone ==
    Computed =>
        /\ top = prev.vm.top
        /\ SeenThrough(heap, top) = SeenThrough(prev.vm.heap, prev.vm.top)

\* C36: globals bind by reference: after `b = a` both names hold the same
\* pointer and a store made through one is seen through the other; the
\* result of an arithmetic or comparison opcode goes to a new slot, so the
\* values seen through the globals do not change.
C36_GlobalsByReference == AliasesShareStores /\ ResultsLeaveGlobalsAlone

\* ----------------------------------------------------------------- C37

\* run() has just executed an opcode that allocated: PushI, PushS,
\* MakeList, arithmetic, comparison, Native, or Index on a string
Allocated ==
    /\ phase \in {"run", "raw"}
    /\ prev.n = 1
    /\ prev.op.op \in AllocOps
    /\ res = Running
    /\ prev.op.op = "Index" => PrevValueAt(1).t = "Str"

\* The heap at the write of that opcode: find_free_slot has collected when
\* it found the free list empty
HeapAtWrite == IF prev.vm.free_list = <<>> THEN gc.post.heap ELSE prev.vm.heap

\* The list Native Append has extended, if the opcode was that one
AppendTarget ==
    IF prev.op.op = "Native" /\ prev.op.f = "Append" /\ prev.op.n >= 1
    THEN {PrevAt(prev.op.n - 1)}
    ELSE {}

\* C37: the value written by an allocating opcode goes to a slot that is
\* None immediately before the write, or to a new slot at the end of the
\* heap; no other slot that held a value gets another value.
C37_AllocatesIntoNone ==
    Allocated =>
        LET p == Last(stack)
        IN /\ heap[p + 1] # None
           /\ IF p < Len(HeapAtWrite) THEN HeapAtWrite[p + 1] = None
              ELSE p = Len(HeapAtWrite) /\ Len(heap) = p + 1
           /\ \A q \in (Slots(prev.vm.heap) \ {p}) \ AppendTarget :
                \/ heap[q + 1] = prev.vm.heap[q + 1]
                \/ heap[q + 1] = None /\ prev.vm.free_list = <<>>

\* The allocation took a slot whose value the collection of the same
\* opcode had just freed
C37_Witness ==
    /\ Allocated
    /\ prev.vm.free_list = <<>>
    /\ HoldsValue(prev.vm.heap, Last(stack))
    /\ gc.post.heap[Last(stack) + 1] = None

\* ----------------------------------------------------------------- C38

\* No statement fed holds a while loop
LoopFree ==
    \A i \in 1..Len(fed) :
        LET nodes == Nodes(StmtPool[fed[i]])
        IN \A k \in 1..Len(nodes) : nodes[k].a # "Loop"

\* build() has just returned the code of a program without a while loop
BuiltLoopFree == JustBuilt /\ LoopFree

MarkersOf(c, id) == {k \in 1..Len(c) : c[k].op = "Target" /\ c[k].id = id}

\* Every feed call so far has returned Ok
FedSuccessfully == phase = "compile"

\* C39: in the code accumulated by successful feed calls every target id
\* handed out has exactly one Target marker, no marker holds another id and
\* every id of a Jmp or JmpF has its marker; build() never returns
\* JumpTargetNotFound.
C39_TargetsMarkedOnce ==
    /\ FedSuccessfully =>
            /\ \A id \in 0..(target_count - 1) :
                    Cardinality(MarkersOf(ccode, id)) = 1
            /\ \A k \in 1..Len(ccode) :
                    /\ ccode[k].op = "Target" =>
                            ccode[k].id \in 0..(target_count - 1)
                    /\ IsJump(ccode[k]) => MarkersOf(ccode, ccode[k].t) # {}
    /\ ~(res.k = "Err" /\ res.e = "JumpTargetNotFound")

\* Three statements with jumps have been fed, a loop and an else branch
\* among them, and build() has returned their code
C39_Witness ==
    /\ JustBuilt
    /\ Len(fed) = 3
    /\ target_count >= 6
    /\ \E k \in 1..Len(ccode) : ccode[k].op = "Jmp" /\ MarkersOf(ccode, ccode[k].t) # {}
    /\ \E i \in 1..3 : fed[i] = 5
    /\ \E i \in 1..3 : fed[i] = 12

====
